---- MODULE Spec2Model ----
(***************************************************************************)
(* Model of tax-document-input: the country registry, the document type    *)
(* detector and mask formatter of FormatManager, the Validator dispatcher  *)
(* with the Brazil / Portugal / USA rule sets, and the widget that wires   *)
(* them together (TaxDocumentInput, ValidationManager, CountryManager).    *)
(*                                                                         *)
(* JavaScript strings that the code indexes are sequences of one-character *)
(* strings.  JavaScript values whose type varies (null, undefined,         *)
(* boolean, string) are tagged records, see JsNull .. JsStr.               *)
(***************************************************************************)
EXTENDS Integers, Sequences, FiniteSets, TLC

VARIABLES
    ptRules,              \* which PortugalRules module registered 'pt' last
    inputValue,           \* input.value of the widget's <input>
    cursor,               \* caret of the <input> (selectionStart = selectionEnd)
    fmSelectedCountry,    \* FormatManager.selectedCountry
    currentDocument,      \* FormatManager.currentDocument
    cmSelectedCountry,    \* CountryManager.selectedCountry
    lastValidationResult, \* ValidationManager.lastValidationResult
    validationState,      \* valid / invalid css class of the <input>
    lastOp,               \* the handler that ran last, with what it was given
    isInitialized,        \* TaxDocumentInput.isInitialized
    self,                 \* the instance whose fields the variables above are
    other,                \* the fields of the other instance on the page
    fmCall,               \* a call of applyMask / calculateCursorPosition
    initCall,             \* a call of the static TaxDocumentInput.init
    geoIpLookup,          \* the lookup of autoGeolocate: options.geoIpLookup or the default
    cmOnlyCountries,      \* CountryManager.onlyCountries
    geoPending,           \* the GeoIP lookup of init has not called back yet
    document,             \* Validator.validate: argument document
    countryCode,          \* Validator.validate: argument countryCode
    documentType,         \* Validator.validate: argument documentType
    result                \* Validator.validate: what the call produced

vars == <<ptRules, inputValue, cursor, fmSelectedCountry, currentDocument,
          cmSelectedCountry, lastValidationResult, validationState, lastOp,
          isInitialized, self, other, fmCall, initCall, geoIpLookup, cmOnlyCountries,
          geoPending,
          document, countryCode, documentType, result>>

widgetVars == <<inputValue, cursor, fmSelectedCountry, currentDocument,
                cmSelectedCountry, lastValidationResult, validationState,
                lastOp, isInitialized>>

\* the second instance, and the calls that belong to no instance
pageVars == <<self, other, fmCall, initCall>>

\* the options of the instance and its GeoIP lookup
optionVars == <<geoIpLookup, cmOnlyCountries, geoPending>>

callVars == <<document, countryCode, documentType, result>>

----------------------------------------------------------------------------
(* JavaScript values *)

JsNull == [t |-> "null"]

JsUndefined == [t |-> "undefined"]

JsBool(b) == [t |-> "boolean", v |-> b]

\* a string, kept as the sequence of the parts it was built from
JsStr(parts) == [t |-> "string", v |-> parts]

\* ToBoolean for the values above (the empty string is falsy)
Truthy(x) ==
    CASE x.t = "null" -> FALSE
      [] x.t = "undefined" -> FALSE
      [] x.t = "boolean" -> x.v
      [] x.t = "string" -> \E i \in 1..Len(x.v) : x.v[i] /= ""
      [] OTHER -> TRUE

\* a || b
JsOr(a, b) == IF Truthy(a) THEN a ELSE b

----------------------------------------------------------------------------
(* Characters and strings *)

Digits == {"0", "1", "2", "3", "4", "5", "6", "7", "8", "9"}

\* parseInt of one digit character
ParseInt(c) ==
    CASE c = "0" -> 0 [] c = "1" -> 1 [] c = "2" -> 2 [] c = "3" -> 3
      [] c = "4" -> 4 [] c = "5" -> 5 [] c = "6" -> 6 [] c = "7" -> 7
      [] c = "8" -> 8 [] c = "9" -> 9

IsDigit(c) == c \in Digits

\* s.replace(/\D/g, '')
StripNonDigits(s) == SelectSeq(s, IsDigit)

\* s.substring(0, n) and s.slice(a, b) for 0 <= a <= b
Slice(s, a, b) ==
    IF a >= Len(s) THEN <<>>
    ELSE SubSeq(s, a + 1, IF b > Len(s) THEN Len(s) ELSE b)

\* the regular expression written with one repetition too many:
\* /^(\d)\1{n}$/ never matches a string of n digits
AllSameDigitOneTooMany(s) == Len(s) > 0 /\ \A i \in 1..(Len(s) + 1) : i <= Len(s) /\ s[i] = s[1]

\* /^(\d)\1{n-1}$/.test(s) for a string of n digits
AllSameDigit(s) == Len(s) > 0 /\ \A i \in 1..Len(s) : s[i] = s[1]

----------------------------------------------------------------------------
(* CountriesData: documents in the insertion order of the object literal *)

MaskCPF == <<"X","X","X",".","X","X","X",".","X","X","X","-","X","X">>

MaskCNPJ == <<"X","X",".","X","X","X",".","X","X","X","/","X","X","X","X","-","X","X">>

MaskNIF == <<"X","X","X"," ","X","X","X"," ","X","X","X">>

MaskSSN == <<"X","X","X","-","X","X","-","X","X","X","X">>

MaskEIN == <<"X","X","-","X","X","X","X","X","X","X">>

CountriesData ==
    [br |-> <<[id |-> "cpf",  length |-> 11, mask |-> MaskCPF,  type |-> "personal", priority |-> 1],
              [id |-> "cnpj", length |-> 14, mask |-> MaskCNPJ, type |-> "company",  priority |-> 2]>>,
     pt |-> <<[id |-> "nif",  length |-> 9,  mask |-> MaskNIF,  type |-> "personal", priority |-> 1],
              [id |-> "nipc", length |-> 9,  mask |-> MaskNIF,  type |-> "company",  priority |-> 2]>>,
     us |-> <<[id |-> "ssn",  length |-> 9,  mask |-> MaskSSN,  type |-> "personal", priority |-> 1],
              [id |-> "ein",  length |-> 9,  mask |-> MaskEIN,  type |-> "company",  priority |-> 2]>>]

RegisteredCountries == DOMAIN CountriesData

\* countries[c].documents[t], or JsUndefined
DocConfig(c, t) ==
    IF c \in RegisteredCountries /\ \E i \in 1..Len(CountriesData[c]) : CountriesData[c][i].id = t
    THEN LET i == CHOOSE i \in 1..Len(CountriesData[c]) : CountriesData[c][i].id = t
         IN  CountriesData[c][i]
    ELSE JsUndefined

----------------------------------------------------------------------------
(* FormatManager: pure parts *)

\* Array.prototype.sort((a, b) => a.priority - b.priority): stable insertion
RECURSIVE InsertByPriority(_, _)
InsertByPriority(sorted, d) ==
    IF sorted = <<>> THEN <<d>>
    ELSE IF sorted[Len(sorted)].priority - d.priority > 0
         THEN Append(InsertByPriority(SubSeq(sorted, 1, Len(sorted) - 1), d), sorted[Len(sorted)])
         ELSE Append(sorted, d)

RECURSIVE SortByPriority(_)
SortByPriority(docs) ==
    IF docs = <<>> THEN <<>>
    ELSE InsertByPriority(SortByPriority(SubSeq(docs, 1, Len(docs) - 1)), docs[Len(docs)])

\* DetectScan with value.length < docConfig.length as its test
RECURSIVE DetectScanStrict(_, _, _)
DetectScanStrict(documents, n, i) ==
    IF i > Len(documents) THEN documents[Len(documents)].id
    ELSE IF n < documents[i].length THEN documents[i].id
         ELSE DetectScanStrict(documents, n, i + 1)

\* the scan without its first round: the first document type is never tried
RECURSIVE DetectScanSkipsFirst(_, _, _)
DetectScanSkipsFirst(documents, n, i) ==
    IF i > Len(documents) THEN documents[Len(documents)].id
    ELSE IF i > 1 /\ n <= documents[i].length THEN documents[i].id
         ELSE DetectScanSkipsFirst(documents, n, i + 1)

\* the for-of scan of detectDocumentType from index i on
RECURSIVE DetectScan(_, _, _)
DetectScan(documents, n, i) ==
    IF i > Len(documents) THEN documents[Len(documents)].id
    ELSE IF n <= documents[i].length THEN documents[i].id
         ELSE DetectScan(documents, n, i + 1)

\* detectDocumentType: the new currentDocument for field value fieldValue,
\* selected country c and previous currentDocument cur
DetectDocumentType(fieldValue, c, cur) ==
    LET value == StripNonDigits(fieldValue)
    IN  IF c \notin RegisteredCountries THEN cur
        ELSE LET documents == SortByPriority(CountriesData[c])
             IN  IF Len(value) = 0 THEN documents[1].id
                 ELSE DetectScan(documents, Len(value), 1)

\* getMaxLength
RECURSIVE MaxOfLengths(_, _)
MaxOfLengths(docs, i) ==
    IF i > Len(docs) THEN 0
    ELSE LET rest == MaxOfLengths(docs, i + 1)
         IN  IF docs[i].length > rest THEN docs[i].length ELSE rest

GetMaxLength(c) ==
    IF c \notin RegisteredCountries THEN 0 ELSE MaxOfLengths(CountriesData[c], 1)

\* the loop of applyMask stopping only where a placeholder finds no digit
\* left, so that the literals after the last digit are still copied
RECURSIVE ApplyMaskFromTrailingLiterals(_, _, _, _, _)
ApplyMaskFromTrailingLiterals(value, mask, i, vi, formatted) ==
    IF i > Len(mask) THEN formatted
    ELSE IF mask[i] = "X"
         THEN IF vi >= Len(value) THEN formatted
              ELSE ApplyMaskFromTrailingLiterals(value, mask, i + 1, vi + 1,
                                                 Append(formatted, value[vi + 1]))
         ELSE ApplyMaskFromTrailingLiterals(value, mask, i + 1, vi, Append(formatted, mask[i]))

\* applyMask: the loop from mask index i (1-based) and value index vi (0-based)
RECURSIVE ApplyMaskFrom(_, _, _, _, _)
ApplyMaskFrom(value, mask, i, vi, formatted) ==
    IF i > Len(mask) \/ vi >= Len(value) THEN formatted
    ELSE IF mask[i] = "X"
         THEN ApplyMaskFrom(value, mask, i + 1, vi + 1, Append(formatted, value[vi + 1]))
         ELSE ApplyMaskFrom(value, mask, i + 1, vi, Append(formatted, mask[i]))

ApplyMask(value, mask) == ApplyMaskFrom(value, mask, 1, 0, <<>>)

\* the first loop without its digit test: every character before oldCursor
\* is counted
NumbersBeforeCursorAnyChar(oldValue, oldCursor) ==
    Cardinality({i \in 1..Len(oldValue) : i - 1 < oldCursor})

\* calculateCursorPosition, first loop: digits of oldValue before oldCursor
NumbersBeforeCursor(oldValue, oldCursor) ==
    Cardinality({i \in 1..Len(oldValue) : i - 1 < oldCursor /\ IsDigit(oldValue[i])})

\* the second loop with newCursor = i + 1 inside the digit branch only, so
\* that literals after the last counted digit are not stepped over
RECURSIVE CursorScanDigitsOnly(_, _, _, _, _)
CursorScanDigitsOnly(newValue, before, i, numbersFound, newCursor) ==
    IF i >= Len(newValue) THEN newCursor
    ELSE IF IsDigit(newValue[i + 1])
         THEN IF numbersFound + 1 > before THEN newCursor
              ELSE CursorScanDigitsOnly(newValue, before, i + 1, numbersFound + 1, i + 1)
         ELSE CursorScanDigitsOnly(newValue, before, i + 1, numbersFound, newCursor)

\* calculateCursorPosition, second loop from index i (0-based)
RECURSIVE CursorScan(_, _, _, _, _)
CursorScan(newValue, before, i, numbersFound, newCursor) ==
    IF i >= Len(newValue) THEN newCursor
    ELSE IF IsDigit(newValue[i + 1])
         THEN IF numbersFound + 1 > before THEN newCursor
              ELSE CursorScan(newValue, before, i + 1, numbersFound + 1, i + 1)
         ELSE CursorScan(newValue, before, i + 1, numbersFound, i + 1)

\* the caret always put at the end of the new value
CalculateCursorPositionAtEnd(oldValue, newValue, oldCursor) == Len(newValue)

CalculateCursorPosition(oldValue, newValue, oldCursor) ==
    CursorScan(newValue, NumbersBeforeCursor(oldValue, oldCursor), 0, 0, 0)

----------------------------------------------------------------------------
(* Validation rules.  A rule function returns an object                    *)
(* [isValid, error, details]; Returned / Threw wrap the outcome of a call. *)
(* Error messages are written in ASCII (digitos for dígitos).              *)

Returned(x) == [threw |-> FALSE, ret |-> x]

Threw(msg) == [threw |-> TRUE, message |-> msg]

\* DescendingSum with the weight base - i - 1 (weights one too small)
RECURSIVE DescendingSumOffByOne(_, _, _)
DescendingSumOffByOne(s, n, base) ==
    IF n = 0 THEN 0
    ELSE DescendingSumOffByOne(s, n - 1, base) + ParseInt(s[n]) * (base - n)

\* sum += parseInt(s.charAt(i)) * (base - i) for i = 0 .. n-1
RECURSIVE DescendingSum(_, _, _)
DescendingSum(s, n, base) ==
    IF n = 0 THEN 0
    ELSE DescendingSum(s, n - 1, base) + ParseInt(s[n]) * (base - (n - 1))

\* sum += parseInt(s.charAt(i)) * weights[i] for i = 0 .. n-1
RECURSIVE WeightedSum(_, _, _)
WeightedSum(s, weights, n) ==
    IF n = 0 THEN 0
    ELSE WeightedSum(s, weights, n - 1) + ParseInt(s[n]) * weights[n]

\* remainder < 2 ? 0 : 11 - remainder
CheckDigit(remainder) == IF remainder < 2 THEN 0 ELSE 11 - remainder

\* BrazilRules.cpf
BrazilCpf(raw) ==
    LET cpf == StripNonDigits(raw)
        sum1 == DescendingSum(cpf, 9, 10)
        remainder1 == sum1 % 11
        digit1 == CheckDigit(remainder1)
        sum2 == DescendingSum(cpf, 10, 11)
        remainder2 == sum2 % 11
        digit2 == CheckDigit(remainder2)
    IN  IF Len(cpf) /= 11
        THEN Returned([isValid |-> JsBool(FALSE),
                       error |-> JsStr(<<"CPF deve conter exatamente 11 digitos">>),
                       details |-> [length |-> Len(cpf), expected |-> 11]])
        ELSE IF AllSameDigit(cpf)
        THEN Returned([isValid |-> JsBool(FALSE),
                       error |-> JsStr(<<"CPF nao pode ter todos os digitos iguais">>),
                       details |-> [pattern |-> "repeated_digits"]])
        ELSE IF digit1 /= ParseInt(cpf[10])
        THEN Returned([isValid |-> JsBool(FALSE),
                       error |-> JsStr(<<"Primeiro digito verificador invalido">>),
                       details |-> [calculated |-> digit1, provided |-> ParseInt(cpf[10]),
                                    sum |-> sum1, remainder |-> remainder1]])
        ELSE IF digit2 /= ParseInt(cpf[11])
        THEN Returned([isValid |-> JsBool(FALSE),
                       error |-> JsStr(<<"Segundo digito verificador invalido">>),
                       details |-> [calculated |-> digit2, provided |-> ParseInt(cpf[11]),
                                    sum |-> sum2, remainder |-> remainder2]])
        ELSE Returned([isValid |-> JsBool(TRUE),
                       error |-> JsNull,
                       details |-> [formatted |-> Slice(cpf, 0, 3) \o <<".">> \o Slice(cpf, 3, 6)
                                                  \o <<".">> \o Slice(cpf, 6, 9) \o <<"-">>
                                                  \o Slice(cpf, 9, 11),
                                    type |-> "personal", country |-> "BR"]])

Weights1 == <<5, 4, 3, 2, 9, 8, 7, 6, 5, 4, 3, 2>>

\* weights1 used again for the second digit, padded to 13 entries
Weights2FromWeights1 == <<5, 4, 3, 2, 9, 8, 7, 6, 5, 4, 3, 2, 2>>

Weights2 == <<6, 5, 4, 3, 2, 9, 8, 7, 6, 5, 4, 3, 2>>

\* BrazilRules.cnpj
BrazilCnpj(raw) ==
    LET cnpj == StripNonDigits(raw)
        sum1 == WeightedSum(cnpj, Weights1, 12)
        remainder1 == sum1 % 11
        digit1 == CheckDigit(remainder1)
        sum2 == WeightedSum(cnpj, Weights2, 13)
        remainder2 == sum2 % 11
        digit2 == CheckDigit(remainder2)
    IN  IF Len(cnpj) /= 14
        THEN Returned([isValid |-> JsBool(FALSE),
                       error |-> JsStr(<<"CNPJ deve conter exatamente 14 digitos">>),
                       details |-> [length |-> Len(cnpj), expected |-> 14]])
        ELSE IF AllSameDigit(cnpj)
        THEN Returned([isValid |-> JsBool(FALSE),
                       error |-> JsStr(<<"CNPJ nao pode ter todos os digitos iguais">>),
                       details |-> [pattern |-> "repeated_digits"]])
        ELSE IF digit1 /= ParseInt(cnpj[13])
        THEN Returned([isValid |-> JsBool(FALSE),
                       error |-> JsStr(<<"Primeiro digito verificador invalido">>),
                       details |-> [calculated |-> digit1, provided |-> ParseInt(cnpj[13]),
                                    sum |-> sum1, remainder |-> remainder1]])
        ELSE IF digit2 /= ParseInt(cnpj[14])
        THEN Returned([isValid |-> JsBool(FALSE),
                       error |-> JsStr(<<"Segundo digito verificador invalido">>),
                       details |-> [calculated |-> digit2, provided |-> ParseInt(cnpj[14]),
                                    sum |-> sum2, remainder |-> remainder2]])
        ELSE Returned([isValid |-> JsBool(TRUE),
                       error |-> JsNull,
                       details |-> [formatted |-> Slice(cnpj, 0, 2) \o <<".">> \o Slice(cnpj, 2, 5)
                                                  \o <<".">> \o Slice(cnpj, 5, 8) \o <<"/">>
                                                  \o Slice(cnpj, 8, 12) \o <<"-">>
                                                  \o Slice(cnpj, 12, 14),
                                    type |-> "company", country |-> "BR"]])

NifWeights == <<9, 8, 7, 6, 5, 4, 3, 2>>

\* the formatted string with its last digit left out
FormatPTDropsDigit(x) == Slice(x, 0, 3) \o <<" ">> \o Slice(x, 3, 6) \o <<" ">> \o Slice(x, 6, 8)

\* `${x.slice(0,3)} ${x.slice(3,6)} ${x.slice(6,9)}`
FormatPT(x) == Slice(x, 0, 3) \o <<" ">> \o Slice(x, 3, 6) \o <<" ">> \o Slice(x, 6, 9)

\* PortugalRules.getEntityType (module version 1.0.1)
GetEntityType(firstDigit) ==
    CASE firstDigit \in {"1", "2", "3"} -> "personal"
      [] firstDigit = "5" -> "public_entity"
      [] firstDigit = "6" -> "non_profit"
      [] firstDigit \in {"7", "8", "9"} -> "other_entity"
      [] OTHER -> "unknown"

\* the checks shared by nif and nipc, up to and including the check digit;
\* name is 'NIF' or 'NIPC', firstDigitError the message of the prefix check
PortugalChecks(x, name, validFirstDigits, firstDigitError, onSuccess) ==
    LET sum == WeightedSum(x, NifWeights, 8)
        remainder == sum % 11
        checkDigit == IF remainder < 2 THEN 0 ELSE 11 - remainder
    IN  IF Len(x) /= 9
        THEN Returned([isValid |-> JsBool(FALSE),
                       error |-> JsStr(<<name, " must contain exactly 9 digits">>),
                       details |-> [length |-> Len(x), expected |-> 9]])
        ELSE IF AllSameDigit(x)
        THEN Returned([isValid |-> JsBool(FALSE),
                       error |-> JsStr(<<name, " cannot have all digits the same">>),
                       details |-> [pattern |-> "repeated_digits"]])
        ELSE IF x[1] \notin validFirstDigits
        THEN Returned([isValid |-> JsBool(FALSE),
                       error |-> JsStr(<<firstDigitError>>),
                       details |-> [firstDigit |-> x[1], validFirstDigits |-> validFirstDigits]])
        ELSE IF checkDigit /= ParseInt(x[9])
        THEN Returned([isValid |-> JsBool(FALSE),
                       error |-> JsStr(<<"Invalid check digit">>),
                       details |-> [calculated |-> checkDigit, provided |-> ParseInt(x[9])]])
        ELSE onSuccess

\* PortugalRules.nif of validators/rules/PortugalRules.js (version 1.0.0)
PortugalNif100(raw) ==
    LET nif == StripNonDigits(raw)
    IN  PortugalChecks(nif, "NIF", {"1", "2", "3"},
            "Personal NIF must start with 1, 2 or 3",
            Returned([isValid |-> JsBool(TRUE),
                      error |-> JsNull,
                      details |-> [formatted |-> FormatPT(nif),
                                   type |-> "personal", country |-> "PT"]]))

\* PortugalRules.nif of module version 1.0.1; thisBound tells whether the
\* call has the rules object as its receiver (this.getEntityType)
PortugalNif101(raw, thisBound) ==
    LET nif == StripNonDigits(raw)
    IN  PortugalChecks(nif, "NIF", {"1", "2", "3", "5", "6", "7", "8", "9"},
            "NIF must start with 1, 2, 3, 5, 6, 7, 8 or 9",
            IF ~thisBound
            THEN Threw("Cannot read properties of undefined (reading 'getEntityType')")
            ELSE Returned([isValid |-> JsBool(TRUE),
                           error |-> JsNull,
                           details |-> [formatted |-> FormatPT(nif),
                                        type |-> GetEntityType(nif[1]),
                                        country |-> "PT"]]))

\* PortugalRules.nipc (the same text in both module versions)
PortugalNipc(raw) ==
    LET nipc == StripNonDigits(raw)
    IN  PortugalChecks(nipc, "NIPC", {"5", "6", "7", "8", "9"},
            "NIPC must start with 5, 6, 7, 8 or 9",
            Returned([isValid |-> JsBool(TRUE),
                      error |-> JsNull,
                      details |-> [formatted |-> FormatPT(nipc),
                                   type |-> "company", country |-> "PT"]]))

\* USASsn without the check of area 666
USASsnArea666Allowed(raw) ==
    LET ssn == StripNonDigits(raw)
        area == Slice(ssn, 0, 3)
        group == Slice(ssn, 3, 5)
        serial == Slice(ssn, 5, 9)
    IN  IF Len(ssn) /= 9
        THEN Returned([isValid |-> JsBool(FALSE),
                       error |-> JsStr(<<"SSN must contain exactly 9 digits">>),
                       details |-> [length |-> Len(ssn), expected |-> 9]])
        ELSE IF AllSameDigit(ssn)
        THEN Returned([isValid |-> JsBool(FALSE),
                       error |-> JsStr(<<"SSN cannot have all digits the same">>),
                       details |-> [pattern |-> "repeated_digits"]])
        ELSE IF area = <<"0", "0", "0">>
        THEN Returned([isValid |-> JsBool(FALSE),
                       error |-> JsStr(<<"SSN area cannot be 000">>),
                       details |-> [area |-> area, issue |-> "invalid_area_000"]])
        ELSE IF area[1] = "9"
        THEN Returned([isValid |-> JsBool(FALSE),
                       error |-> JsStr(<<"SSN area cannot start with 9">>),
                       details |-> [area |-> area, issue |-> "invalid_area_starts_with_9"]])
        ELSE IF group = <<"0", "0">>
        THEN Returned([isValid |-> JsBool(FALSE),
                       error |-> JsStr(<<"SSN group cannot be 00">>),
                       details |-> [group |-> group, issue |-> "invalid_group_00"]])
        ELSE IF serial = <<"0", "0", "0", "0">>
        THEN Returned([isValid |-> JsBool(FALSE),
                       error |-> JsStr(<<"SSN serial number cannot be 0000">>),
                       details |-> [serial |-> serial, issue |-> "invalid_serial_0000"]])
        ELSE Returned([isValid |-> JsBool(TRUE),
                       error |-> JsNull,
                       details |-> [formatted |-> area \o <<"-">> \o group \o <<"-">> \o serial,
                                    type |-> "personal", country |-> "US",
                                    parts |-> [area |-> area, group |-> group, serial |-> serial]]])

\* USARules.ssn
USASsn(raw) ==
    LET ssn == StripNonDigits(raw)
        area == Slice(ssn, 0, 3)
        group == Slice(ssn, 3, 5)
        serial == Slice(ssn, 5, 9)
    IN  IF Len(ssn) /= 9
        THEN Returned([isValid |-> JsBool(FALSE),
                       error |-> JsStr(<<"SSN must contain exactly 9 digits">>),
                       details |-> [length |-> Len(ssn), expected |-> 9]])
        ELSE IF AllSameDigit(ssn)
        THEN Returned([isValid |-> JsBool(FALSE),
                       error |-> JsStr(<<"SSN cannot have all digits the same">>),
                       details |-> [pattern |-> "repeated_digits"]])
        ELSE IF area = <<"0", "0", "0">>
        THEN Returned([isValid |-> JsBool(FALSE),
                       error |-> JsStr(<<"SSN area cannot be 000">>),
                       details |-> [area |-> area, issue |-> "invalid_area_000"]])
        ELSE IF area = <<"6", "6", "6">>
        THEN Returned([isValid |-> JsBool(FALSE),
                       error |-> JsStr(<<"">>),
                       details |-> [area |-> area, issue |-> "invalid_area_666"]])
        ELSE IF area[1] = "9"
        THEN Returned([isValid |-> JsBool(FALSE),
                       error |-> JsStr(<<"SSN area cannot start with 9">>),
                       details |-> [area |-> area, issue |-> "invalid_area_starts_with_9"]])
        ELSE IF group = <<"0", "0">>
        THEN Returned([isValid |-> JsBool(FALSE),
                       error |-> JsStr(<<"SSN group cannot be 00">>),
                       details |-> [group |-> group, issue |-> "invalid_group_00"]])
        ELSE IF serial = <<"0", "0", "0", "0">>
        THEN Returned([isValid |-> JsBool(FALSE),
                       error |-> JsStr(<<"SSN serial number cannot be 0000">>),
                       details |-> [serial |-> serial, issue |-> "invalid_serial_0000"]])
        ELSE Returned([isValid |-> JsBool(TRUE),
                       error |-> JsNull,
                       details |-> [formatted |-> area \o <<"-">> \o group \o <<"-">> \o serial,
                                    type |-> "personal", country |-> "US",
                                    parts |-> [area |-> area, group |-> group, serial |-> serial]]])

\* validPrefixes with every two-digit prefix 01..99 in it
ValidPrefixesAll == 1..99

\* validPrefixes of USARules.ein, as two-digit numbers
ValidPrefixes ==
    {1, 2, 3, 4, 5, 6, 10, 11, 12, 13, 14, 15, 16,
     20, 21, 22, 23, 24, 25, 26, 27,
     30, 31, 32, 33, 34, 35, 36, 37, 38, 39,
     40, 41, 42, 43, 44, 45, 46, 47, 48,
     50, 51, 52, 53, 54, 55, 56, 57, 58, 59,
     60, 61, 62, 63, 64, 65, 66, 67, 68,
     71, 72, 73, 74, 75, 76, 77,
     80, 81, 82, 83, 84, 85, 86, 87, 88,
     90, 91, 92, 93, 94, 95, 96, 98, 99}

\* USARules.ein
USAEin(raw) ==
    LET ein == StripNonDigits(raw)
        prefix == Slice(ein, 0, 2)
        suffix == Slice(ein, 2, 9)
    IN  IF Len(ein) /= 9
        THEN Returned([isValid |-> JsBool(FALSE),
                       error |-> JsStr(<<"EIN must contain exactly 9 digits">>),
                       details |-> [length |-> Len(ein), expected |-> 9]])
        ELSE IF AllSameDigit(ein)
        THEN Returned([isValid |-> JsBool(FALSE),
                       error |-> JsStr(<<"EIN cannot have all digits the same">>),
                       details |-> [pattern |-> "repeated_digits"]])
        ELSE IF 10 * ParseInt(prefix[1]) + ParseInt(prefix[2]) \notin ValidPrefixes
        THEN Returned([isValid |-> JsBool(FALSE),
                       error |-> JsStr(<<"Invalid EIN prefix">>),
                       details |-> [prefix |-> prefix, issue |-> "invalid_prefix"]])
        ELSE IF suffix = <<"0", "0", "0", "0", "0", "0", "0">>
        THEN Returned([isValid |-> JsBool(FALSE),
                       error |-> JsStr(<<"EIN suffix cannot be 0000000">>),
                       details |-> [suffix |-> suffix, issue |-> "invalid_suffix_all_zeros"]])
        ELSE Returned([isValid |-> JsBool(TRUE),
                       error |-> JsNull,
                       details |-> [formatted |-> prefix \o <<"-">> \o suffix,
                                    type |-> "company", country |-> "US",
                                    parts |-> [prefix |-> prefix, suffix |-> suffix]]])

----------------------------------------------------------------------------
(* Validator: the rule registry and the dispatcher *)

PtRulesVersions == {"1.0.0", "1.0.1"}

\* String.prototype.toLowerCase on the country codes the model uses
ToLowerCase(code) ==
    CASE code \in {"BR", "Br"} -> "br"
      [] code \in {"PT", "Pt"} -> "pt"
      [] code \in {"US", "Us"} -> "us"
      [] code = "XX" -> "xx"
      [] OTHER -> code

\* keys of Validator.rules after the three rule modules called registerRules
RuleCountries == {"br", "pt", "us"}

\* own properties of the registered rules object
OwnRules(key, ptv) ==
    CASE key = "br" -> {"cpf", "cnpj"}
      [] key = "pt" -> IF ptv = "1.0.1" THEN {"nif", "nipc", "getEntityType"}
                       ELSE {"nif", "nipc"}
      [] key = "us" -> {"ssn", "ein"}
      [] OTHER -> {}

\* function-valued properties every object literal inherits from Object.prototype
InheritedFunctions == {"constructor", "toString", "valueOf", "hasOwnProperty"}

\* rules[documentType]: the function found, or "undefined"
RuleProperty(key, type, ptv) ==
    IF type \in OwnRules(key, ptv) THEN
        IF type = "nif" THEN (IF ptv = "1.0.1" THEN "nif@1.0.1" ELSE "nif@1.0.0")
        ELSE type
    ELSE IF type \in InheritedFunctions THEN type
    ELSE "undefined"

\* validator(document): a call without receiver, in strict (module) code
CallValidator(fn, doc) ==
    CASE fn = "cpf" -> BrazilCpf(doc)
      [] fn = "cnpj" -> BrazilCnpj(doc)
      [] fn = "nif@1.0.0" -> PortugalNif100(doc)
      [] fn = "nif@1.0.1" -> PortugalNif101(doc, FALSE)
      [] fn = "nipc" -> PortugalNipc(doc)
      [] fn = "ssn" -> USASsn(doc)
      [] fn = "ein" -> USAEin(doc)
      [] fn = "getEntityType" ->
            Returned(JsStr(<<IF Len(doc) = 1 THEN GetEntityType(doc[1]) ELSE "unknown">>))
      [] fn = "toString" -> Returned(JsStr(<<"[object Undefined]">>))
      [] fn = "constructor" -> Returned([t |-> "object"])
      [] fn = "valueOf" -> Threw("Cannot convert undefined or null to object")
      [] fn = "hasOwnProperty" -> Threw("Cannot convert undefined or null to object")

\* obj.name for an object or primitive obj
Prop(obj, name) ==
    IF name \in DOMAIN obj /\ "t" \notin DOMAIN obj THEN obj[name] ELSE JsUndefined

\* TryCall without the try / catch: an exception of the call leaves validate
TryCallNoCatch(c, fn, type, code) ==
    IF c.threw
    THEN [raised |-> TRUE, invoked |-> fn, threw |-> TRUE, value |-> JsUndefined]
    ELSE [raised |-> FALSE, invoked |-> fn, threw |-> FALSE,
          value |-> [isValid |-> Prop(c.ret, "isValid"),
                     error |-> JsOr(Prop(c.ret, "error"), JsNull),
                     details |-> IF Prop(c.ret, "details") = JsUndefined
                                 THEN JsNull ELSE c.ret.details,
                     documentType |-> type,
                     countryCode |-> code]]

\* the try / catch of validate around the call c; what the caller gets
\* (raised: an exception left validate) and what happened inside
TryCall(c, fn, type, code) ==
    IF c.threw
    THEN [raised |-> FALSE, invoked |-> fn, threw |-> TRUE,
          value |-> [isValid |-> JsBool(FALSE),
                     error |-> JsStr(<<"Erro durante validacao: ", c.message>>),
                     details |-> JsNull]]
    ELSE [raised |-> FALSE, invoked |-> fn, threw |-> FALSE,
          value |-> [isValid |-> Prop(c.ret, "isValid"),
                     error |-> JsOr(Prop(c.ret, "error"), JsNull),
                     details |-> IF Prop(c.ret, "details") = JsUndefined
                                 THEN JsNull ELSE c.ret.details,
                     documentType |-> type,
                     countryCode |-> code]]

\* Validator.validate(document, countryCode, documentType)
ValidatorValidate(doc, code, type, ptv) ==
    LET key == ToLowerCase(code)
        validator == RuleProperty(key, type, ptv)
    IN  IF key \notin RuleCountries
        THEN [raised |-> FALSE, invoked |-> "none", threw |-> FALSE,
              value |-> [isValid |-> JsBool(FALSE),
                         error |-> JsStr(<<"Regras de validacao nao encontradas para o pais: ", code>>),
                         details |-> JsNull]]
        ELSE IF validator = "undefined"
        THEN [raised |-> FALSE, invoked |-> "none", threw |-> FALSE,
              value |-> [isValid |-> JsBool(FALSE),
                         error |-> JsStr(<<"Validador nao encontrado para o tipo: ", type>>),
                         details |-> JsNull]]
        ELSE TryCall(CallValidator(validator, doc), validator, type, code)

----------------------------------------------------------------------------
(* Inputs of the validator calls *)

\* number of trailing characters of a sample document that the caller may
\* have retyped before the call
MaxSuffix == 2

Str11144477735 == <<"1","1","1","4","4","4","7","7","7","3","5">>

Str11222333000181 == <<"1","1","2","2","2","3","3","3","0","0","0","1","8","1">>

Str123456789 == <<"1","2","3","4","5","6","7","8","9">>

SampleDocuments ==
    { Str11144477735,
      <<"5","2","9","9","8","2","2","4","7","2","5">>,
      <<"1","1","1",".","4","4","4",".","7","7","7","-","3","5">>,
      <<"1","1","1","1","1","1","1","1","1","1","1">>,
      Str11222333000181,
      <<"1","1","1","1","1","1","1","1","1","1","1","1","1","1">>,
      Str123456789,
      <<"2","9","9","9","9","9","9","9","8">>,
      <<"5","0","1","2","3","4","5","6","0">>,
      <<"6","0","0","0","0","0","0","0","1">>,
      <<"7","8","9","0","1","2","3","4","0">>,
      <<"4","4","4","4","4","4","4","4","4">>,
      <<"0","0","0","4","5","6","7","8","9">>,
      <<"6","6","6","1","2","3","4","5","6">>,
      <<"1","2","3","0","0","6","7","8","9">>,
      <<"1","2","3","4","5","0","0","0","0">>,
      <<"0","7","1","2","3","4","5","6","7">>,
      <<"1","2","0","0","0","0","0","0","0">>,
      <<"9","0","0","1","2","3","4","5","6">>,
      <<"0","0","0","0","0","0","0","0","0">>,
      <<"6","6","6","6","6","6","6","6","6">>,
      <<"9","9","9","9","9","9","9","9","9">> }

\* the characters the caller retypes with
EditChars == {"0", "1", "3", "5", "8", "."}

CountryCodes == {"br", "pt", "us", "PT", "xx"}

DocumentTypes == {"cpf", "cnpj", "nif", "nipc", "ssn", "ein",
                  "getEntityType", "toString", "valueOf", "rg"}

NoCall == [raised |-> FALSE, invoked |-> "none", threw |-> FALSE, value |-> JsNull]

\* no second instance was constructed
NoInstance == [isInitialized |-> FALSE, constructed |-> FALSE]

\* no call of a FormatManager function is being looked at
NoFormatCall == [fn |-> "none"]

\* the static TaxDocumentInput.init was not called
NoInitCall == [status |-> "idle"]

----------------------------------------------------------------------------
(* Validator calls on their own: a sample document, its last MaxSuffix     *)
(* characters retyped, validated for a country code and a document type    *)

WidgetInitial ==
    /\ inputValue = <<>>
    /\ cursor = 0
    /\ fmSelectedCountry = "br"
    /\ currentDocument = "cpf"
    /\ cmSelectedCountry = "br"
    /\ lastValidationResult = JsNull
    /\ validationState = JsNull
    /\ geoIpLookup = "default"
    /\ cmOnlyCountries = {}
    /\ geoPending = FALSE
    /\ lastOp = [op |-> "init"]
    /\ isInitialized = TRUE
    /\ self = 1
    /\ other = NoInstance
    /\ fmCall = NoFormatCall
    /\ initCall = NoInitCall

InitValidate ==
    /\ ptRules \in PtRulesVersions
    /\ document \in SampleDocuments
    /\ countryCode \in CountryCodes
    /\ documentType \in DocumentTypes
    /\ result = NoCall
    /\ WidgetInitial

\* the caller retypes one of the trailing characters of the document
EditDocument(i, c) ==
    /\ result = NoCall
    /\ i \in 1..Len(document)
    /\ i > Len(document) - MaxSuffix
    /\ document[i] /= c
    /\ document' = [document EXCEPT ![i] = c]
    /\ result' = NoCall
    /\ UNCHANGED <<ptRules, optionVars, countryCode, documentType, widgetVars, pageVars>>

\* ValidatorInstance.validate(document, countryCode, documentType)
Validate ==
    /\ result = NoCall
    /\ result' = ValidatorValidate(document, countryCode, documentType, ptRules)
    /\ UNCHANGED <<ptRules, optionVars, document, countryCode, documentType, widgetVars, pageVars>>

NextValidate ==
    \/ \E i \in 1..14, c \in EditChars : EditDocument(i, c)
    \/ Validate

SpecValidate == InitValidate /\ [][NextValidate]_vars

----------------------------------------------------------------------------
(* The widget: ValidationManager, FormatManager and TaxDocumentInput       *)

\* null in a field that otherwise holds a string (currentDocument)
NoDocument == "<null>"

\* !x for a country code or document type
Falsy(x) == x \in {"", NoDocument}

\* { ...result, documentType, country } of ValidationManager.validateDocument
StoredResult(value, country, type) ==
    [documentType |-> type, country |-> country] @@ value

\* ValidationManager.validateDocument: [ret, last] = the returned result and
\* the new lastValidationResult
ValidateDocument(cleanValue, country, type, last, ptv) ==
    IF Falsy(country) \/ Falsy(type)
    THEN [ret |-> [isValid |-> JsBool(FALSE),
                   error |-> JsStr(<<"Pais ou tipo de documento nao definido">>),
                   details |-> JsNull],
          last |-> last]
    ELSE LET stored == StoredResult(ValidatorValidate(cleanValue, country, type, ptv).value,
                                    country, type)
         IN  [ret |-> stored, last |-> stored]

\* getValidationState with documentLength <= expectedLength as its second
\* test: a complete document stays neutral
GetValidationStateCompleteNeutral(cleanValue, country, type, expectedLength, last, ptv) ==
    IF Len(cleanValue) = 0 THEN [state |-> JsNull, last |-> last]
    ELSE IF Len(cleanValue) <= expectedLength THEN [state |-> JsNull, last |-> last]
    ELSE [state |-> JsBool(FALSE), last |-> last]

\* ValidationManager.getValidationState: [state, last]
GetValidationState(cleanValue, country, type, expectedLength, last, ptv) ==
    IF Len(cleanValue) = 0 THEN [state |-> JsNull, last |-> last]
    ELSE IF Len(cleanValue) < expectedLength THEN [state |-> JsNull, last |-> last]
    ELSE IF Len(cleanValue) = expectedLength
    THEN LET r == ValidateDocument(cleanValue, country, type, last, ptv)
         IN  [state |-> r.ret.isValid, last |-> r.last]
    ELSE [state |-> JsBool(FALSE), last |-> last]

\* DOMManager.setValidationState: the class the <input> carries afterwards
SetValidationState(isValid) ==
    IF isValid = JsBool(TRUE) THEN JsBool(TRUE)
    ELSE IF isValid = JsBool(FALSE) THEN JsBool(FALSE)
    ELSE JsNull

\* TaxDocumentInput.updateValidationState: [state, last]; cur is the class
\* the <input> carries now
UpdateValidationState(cleanValue, type, country, cur, last, ptv) ==
    IF Falsy(type) THEN [state |-> cur, last |-> last]
    ELSE LET docConfig == DocConfig(country, type)
         IN  IF docConfig = JsUndefined THEN [state |-> cur, last |-> last]
             ELSE LET r == GetValidationState(cleanValue, country, type, docConfig.length, last, ptv)
                  IN  [state |-> SetValidationState(r.state), last |-> r.last]

\* formatInput taking docConfig before it calls detectDocumentType: the mask
\* is the one of the type that was active before the event
FormatInputStaleMask(raw, cursorPosition) ==
    LET value == Slice(StripNonDigits(raw), 0, GetMaxLength(fmSelectedCountry))
        detected == DetectDocumentType(raw, fmSelectedCountry, currentDocument)
        docConfig == DocConfig(fmSelectedCountry, currentDocument)
        formatted == ApplyMask(value, docConfig.mask)
        newCursorPosition == CalculateCursorPosition(raw, formatted, cursorPosition)
        v == UpdateValidationState(value, detected, cmSelectedCountry,
                                   validationState, lastValidationResult, ptRules)
    IN  IF fmSelectedCountry \notin RegisteredCountries \/ docConfig = JsUndefined
        THEN /\ inputValue' = raw
             /\ cursor' = cursorPosition
             /\ UNCHANGED <<currentDocument, lastValidationResult, validationState>>
        ELSE /\ inputValue' = formatted
             /\ cursor' = newCursorPosition
             /\ currentDocument' = detected
             /\ lastValidationResult' = v.last
             /\ validationState' = v.state

\* FormatManager.formatInput on an input event whose target holds raw with
\* the caret at cursorPosition, followed by its onFormatChange callback
FormatInput(raw, cursorPosition) ==
    LET value == Slice(StripNonDigits(raw), 0, GetMaxLength(fmSelectedCountry))
        detected == DetectDocumentType(raw, fmSelectedCountry, currentDocument)
        docConfig == DocConfig(fmSelectedCountry, detected)
        formatted == ApplyMask(value, docConfig.mask)
        newCursorPosition == CalculateCursorPosition(raw, formatted, cursorPosition)
        v == UpdateValidationState(value, detected, cmSelectedCountry,
                                   validationState, lastValidationResult, ptRules)
    IN  IF fmSelectedCountry \notin RegisteredCountries
        THEN /\ inputValue' = raw
             /\ cursor' = cursorPosition
             /\ UNCHANGED <<currentDocument, lastValidationResult, validationState>>
        ELSE IF docConfig = JsUndefined
        THEN /\ inputValue' = raw
             /\ cursor' = cursorPosition
             /\ currentDocument' = detected
             /\ UNCHANGED <<lastValidationResult, validationState>>
        ELSE /\ inputValue' = formatted
             /\ cursor' = newCursorPosition
             /\ currentDocument' = detected
             /\ lastValidationResult' = v.last
             /\ validationState' = v.state

\* clearValidationCache with lastValidationResult kept on the Validator
\* singleton that every ValidationManager shares
ClearValidationCacheShared ==
    /\ lastValidationResult' = JsNull
    /\ other' = IF other.constructed
                THEN [other EXCEPT !.lastValidationResult = JsNull]
                ELSE other

\* ValidationManager.clearValidationCache: this.lastValidationResult = null
ClearValidationCache ==
    /\ lastValidationResult' = JsNull
    /\ other' = other

\* ClearField with a FormatManager.clear that keeps currentDocument
ClearFieldKeepsType(c) ==
    /\ inputValue' = <<>>
    /\ cursor' = 0
    /\ currentDocument' = currentDocument
    /\ ClearValidationCache
    /\ validationState' = SetValidationState(JsNull)

\* FormatManager.clear, ValidationManager.clearValidationCache and
\* DOMManager.setValidationState(null), for the country c
ClearField(c) ==
    /\ inputValue' = <<>>
    /\ cursor' = 0
    /\ currentDocument' = DetectDocumentType(<<>>, c, NoDocument)
    /\ ClearValidationCache
    /\ validationState' = SetValidationState(JsNull)

\* ValidationManager.isDocumentValid with return !!result as its last line
IsDocumentValidTruthyResult(cleanValue, country, type, expectedLength, last, ptv) ==
    IF Len(cleanValue) /= expectedLength
    THEN [ret |-> JsBool(FALSE), last |-> last]
    ELSE LET r == ValidateDocument(cleanValue, country, type, last, ptv)
         IN  [ret |-> JsBool(TRUE), last |-> r.last]

\* ValidationManager.isDocumentValid: [ret, last]
IsDocumentValid(cleanValue, country, type, expectedLength, last, ptv) ==
    IF Len(cleanValue) /= expectedLength
    THEN [ret |-> JsBool(FALSE), last |-> last]
    ELSE LET r == ValidateDocument(cleanValue, country, type, last, ptv)
         IN  [ret |-> r.ret.isValid, last |-> r.last]

\* FormatManager.getCurrentDocumentInfo, or JsNull
GetCurrentDocumentInfo ==
    IF fmSelectedCountry \notin RegisteredCountries \/ Falsy(currentDocument)
    THEN JsNull
    ELSE DocConfig(fmSelectedCountry, currentDocument)

\* TaxDocumentInput.triggerCompleteValidation
TriggerCompleteValidation ==
    LET cleanValue == StripNonDigits(inputValue)
        r == ValidateDocument(cleanValue, cmSelectedCountry, currentDocument,
                              lastValidationResult, ptRules)
    IN  IF Len(cleanValue) > 0 /\ ~Falsy(currentDocument) /\ ~Falsy(cmSelectedCountry)
        THEN /\ lastValidationResult' = r.last
             /\ validationState' = SetValidationState(r.ret.isValid)
        ELSE UNCHANGED <<lastValidationResult, validationState>>

----------------------------------------------------------------------------
(* The widget's handlers *)

\* characters the user types
TypedChars == {"1", "a"}

Str20Digits == Str123456789 \o <<"0">> \o Str123456789 \o <<"0">>

\* values given to setValue (or pasted over the whole field)
SetValues == {Str11144477735, Str11222333000181, Str123456789, Str20Digits}

\* the state after new TaxDocumentInput(input, { defaultCountry })
Init ==
    /\ ptRules \in PtRulesVersions
    /\ \E defaultCountry \in RegisteredCountries :
        /\ fmSelectedCountry = defaultCountry
        /\ cmSelectedCountry = defaultCountry
        /\ currentDocument = DetectDocumentType(<<>>, defaultCountry, NoDocument)
    /\ geoIpLookup = "default"
    /\ cmOnlyCountries = {}
    /\ geoPending = FALSE
    /\ inputValue = <<>>
    /\ cursor = 0
    /\ lastValidationResult = JsNull
    /\ validationState = JsNull
    /\ lastOp = [op |-> "init"]
    /\ isInitialized = TRUE
    /\ self = 1
    /\ other = NoInstance
    /\ fmCall = NoFormatCall
    /\ initCall = NoInitCall
    /\ document = <<>>
    /\ countryCode = "br"
    /\ documentType = "cpf"
    /\ result = NoCall

\* this.countries[code] on the object literal CountriesData: the data of a
\* country, a function that the literal inherits from Object.prototype, or
\* undefined
CountriesLookup(code) ==
    IF code \in RegisteredCountries THEN "data"
    ELSE IF code \in InheritedFunctions THEN "function"
    ELSE "undefined"

\* a TypeError leaves the handler: it ran into one of the managers that
\* destroy set to null, or into the documents of a country that has none
Raised(handler) ==
    /\ lastOp' = [op |-> "raised", by |-> handler]
    /\ UNCHANGED <<ptRules, fmSelectedCountry, currentDocument, cmSelectedCountry,
                   lastValidationResult, validationState, isInitialized, pageVars, callVars>>

\* the 'input' listener, (e) => { this.formatManager.formatInput(e) }, on an
\* event whose target holds raw with the caret at cursorPosition; for a
\* selected country without documents getMaxLength raises
InputEvent(raw, cursorPosition) ==
    /\ IF isInitialized /\ CountriesLookup(fmSelectedCountry) /= "function"
       THEN /\ FormatInput(raw, cursorPosition)
            /\ lastOp' = [op |-> "input", rawDigits |-> Len(StripNonDigits(raw))]
            /\ UNCHANGED <<ptRules, fmSelectedCountry, cmSelectedCountry, isInitialized,
                           pageVars, callVars>>
       ELSE /\ inputValue' = raw
            /\ cursor' = cursorPosition
            /\ Raised("input listener")
    /\ UNCHANGED optionVars

\* the user types c at the caret
TypeChar(c) ==
    InputEvent(SubSeq(inputValue, 1, cursor) \o <<c>>
                   \o SubSeq(inputValue, cursor + 1, Len(inputValue)),
               cursor + 1)

\* the user deletes the character before the caret
Backspace ==
    /\ cursor > 0
    /\ InputEvent(SubSeq(inputValue, 1, cursor - 1)
                      \o SubSeq(inputValue, cursor + 1, Len(inputValue)),
                  cursor - 1)

\* TaxDocumentInput.setValue(value)
SetValue(value) == InputEvent(value, Len(value))

\* TaxDocumentInput.clear; for a selected country without documents
\* FormatManager.clear empties the field and raises in detectDocumentType
Clear ==
    /\ IF ~isInitialized
       THEN /\ Raised("clear")
            /\ UNCHANGED <<inputValue, cursor>>
       ELSE IF CountriesLookup(fmSelectedCountry) = "function"
       THEN /\ inputValue' = <<>>
            /\ cursor' = 0
            /\ Raised("clear")
       ELSE /\ ClearField(fmSelectedCountry)
            /\ lastOp' = [op |-> "clear"]
            /\ UNCHANGED <<ptRules, fmSelectedCountry, cmSelectedCountry, isInitialized,
                           self, fmCall, initCall, callVars>>
    /\ UNCHANGED optionVars

\* what a listener of countrychange finds in the widget when it is called
\* for a selection of code, as the event were dispatched first
CountryChangeSeenBeforeSwitch(code) ==
    [fmSelectedCountry |-> fmSelectedCountry,
     inputValue |-> inputValue,
     currentDocument |-> currentDocument]

\* what a listener of countrychange finds in the widget when it is called
\* for a selection of code: dispatchEvent is the last statement of
\* onCountryChange
CountryChangeSeen(code) ==
    [fmSelectedCountry |-> code,
     inputValue |-> <<>>,
     currentDocument |-> DetectDocumentType(<<>>, code, NoDocument)]

\* new CustomEvent('countrychange', { detail }) as the input dispatches it
CountryChange(previousCountry, newCountry) ==
    [type |-> "countrychange",
     detail |-> [previousCountry |-> previousCountry, newCountry |-> newCountry,
                 countryData |-> CountriesLookup(newCountry)],
     seen |-> CountryChangeSeen(newCountry)]

\* selectCountry(code) of a CountryManager whose selectedCountry is
\* previousCountry, with the onCountryChange callback.  The callback raises
\* on a destroyed instance (this.formatManager is null) and for a code that
\* finds a function of Object.prototype (setSelectedCountry raises in
\* detectDocumentType, Object.entries(undefined)).
SelectCountryFrom(previousCountry, code) ==
    /\ cmSelectedCountry' = code
    /\ IF ~isInitialized
       THEN /\ lastOp' = [op |-> "raised", by |-> "onCountryChange"]
            /\ UNCHANGED <<inputValue, cursor, fmSelectedCountry, currentDocument,
                           lastValidationResult, validationState, other>>
       ELSE IF CountriesLookup(code) = "function"
       THEN /\ fmSelectedCountry' = code
            /\ currentDocument' = NoDocument
            /\ lastOp' = [op |-> "raised", by |-> "onCountryChange"]
            /\ UNCHANGED <<inputValue, cursor, lastValidationResult, validationState, other>>
       ELSE /\ fmSelectedCountry' = code
            /\ ClearField(code)
            /\ lastOp' = [op |-> "country", previousCountry |-> previousCountry,
                          newCountry |-> code,
                          dispatched |-> <<CountryChange(previousCountry, code)>>]
    /\ UNCHANGED <<ptRules, isInitialized, self, fmCall, initCall, callVars>>

\* CountryManager.selectCountry(code)
SelectCountry(code) == SelectCountryFrom(cmSelectedCountry, code)

\* the handler returns without having done anything
Ignored ==
    /\ lastOp' = [op |-> "ignored"]
    /\ UNCHANGED <<ptRules, inputValue, cursor, fmSelectedCountry, currentDocument,
                   cmSelectedCountry, lastValidationResult, validationState,
                   isInitialized, pageVars, callVars>>

\* TaxDocumentInput.setCountry(code)
SetCountry(code) ==
    IF CountriesLookup(code) /= "undefined"
    THEN IF isInitialized
         THEN SelectCountry(code)
         ELSE /\ Raised("setCountry")
              /\ UNCHANGED <<inputValue, cursor>>
    ELSE Ignored

\* a call of setCountry(code) by the page
CallSetCountry(code) ==
    /\ SetCountry(code)
    /\ UNCHANGED optionVars

\* the items that populateCountries put into the dropdown
DropdownItems ==
    {c \in (IF cmOnlyCountries /= {} THEN cmOnlyCountries ELSE RegisteredCountries) :
        CountriesLookup(c) /= "undefined"}

\* the click listener of the dropdown item of code; DOMManager.destroy took
\* the dropdown out of the page
DropdownClick(code) ==
    /\ isInitialized
    /\ code \in DropdownItems
    /\ SelectCountry(code)
    /\ UNCHANGED optionVars

\* TaxDocumentInput.updateOptions(newOptions) for newOptions with
\* defaultCountry, onlyCountries or both
UpdateOptions(newOptions) ==
    LET given(name) == name \in DOMAIN newOptions
        setsCountry == /\ given("defaultCountry")
                       /\ ~Falsy(newOptions.defaultCountry)
                       /\ CountriesLookup(newOptions.defaultCountry) /= "undefined"
        raises == setsCountry /\ (~isInitialized
                                     \/ CountriesLookup(newOptions.defaultCountry) = "function")
    IN  /\ IF setsCountry THEN SetCountry(newOptions.defaultCountry)
           ELSE IF given("onlyCountries") /\ ~isInitialized
           THEN /\ Raised("updateOptions")
                /\ UNCHANGED <<inputValue, cursor>>
           ELSE /\ lastOp' = [op |-> "updateOptions"]
                /\ UNCHANGED <<ptRules, inputValue, cursor, fmSelectedCountry, currentDocument,
                               cmSelectedCountry, lastValidationResult, validationState,
                               isInitialized, pageVars, callVars>>
        /\ cmOnlyCountries' = IF given("onlyCountries") /\ isInitialized /\ ~raises
                              THEN newOptions.onlyCountries
                              ELSE cmOnlyCountries
        /\ UNCHANGED <<geoIpLookup, geoPending>>

\* the callback that autoGeolocate handed to the lookup is called with
\* the country code found.  defaultGeoIpLookup calls it from a promise whose catch
\* calls callback('br'), also when it was the callback that raised.
GeoIpCallback(found) ==
    LET code == ToLowerCase(found)
        accepted == ~Falsy(found) /\ CountriesLookup(code) /= "undefined"
        raises == ~isInitialized \/ CountriesLookup(code) = "function"
    IN  /\ geoPending
        /\ geoPending' = FALSE
        /\ IF ~accepted THEN Ignored
           ELSE IF raises /\ geoIpLookup = "default"
           THEN SelectCountryFrom(code, "br")
           ELSE SelectCountry(code)
        /\ UNCHANGED <<geoIpLookup, cmOnlyCountries>>

\* the 'blur' listener
Blur ==
    /\ IF isInitialized
       THEN /\ TriggerCompleteValidation
            /\ lastOp' = [op |-> "blur"]
            /\ UNCHANGED <<ptRules, inputValue, cursor, fmSelectedCountry, currentDocument,
                           cmSelectedCountry, isInitialized, pageVars, callVars>>
       ELSE /\ Raised("blur listener")
            /\ UNCHANGED <<inputValue, cursor>>
    /\ UNCHANGED optionVars

\* TaxDocumentInput.isValid()
CallIsValid ==
    LET cleanValue == StripNonDigits(inputValue)
        docInfo == GetCurrentDocumentInfo
        v == IsDocumentValid(cleanValue, cmSelectedCountry, currentDocument,
                             docInfo.length, lastValidationResult, ptRules)
    IN  /\ IF ~isInitialized
           THEN /\ Raised("isValid")
                /\ UNCHANGED <<inputValue, cursor>>
           ELSE /\ IF docInfo \in {JsNull, JsUndefined} \/ Falsy(currentDocument)
                         \/ Falsy(cmSelectedCountry)
                   THEN /\ lastOp' = [op |-> "isValid", ret |-> JsBool(FALSE)]
                        /\ UNCHANGED lastValidationResult
                   ELSE /\ lastOp' = [op |-> "isValid", ret |-> v.ret]
                        /\ lastValidationResult' = v.last
                /\ UNCHANGED <<ptRules, inputValue, cursor, fmSelectedCountry, currentDocument,
                               cmSelectedCountry, validationState, isInitialized,
                               pageVars, callVars>>
        /\ UNCHANGED optionVars

\* TaxDocumentInput.destroy(): DOMManager.destroy takes the wrapper and the
\* validation classes away, the four managers become null; the listeners
\* of setupEventListeners stay, removeEventListener being given a function
\* that was never added, and so does the callback that a GeoIP lookup holds
Destroy ==
    /\ IF ~isInitialized
       THEN Ignored
       ELSE /\ isInitialized' = FALSE
            /\ fmSelectedCountry' = NoDocument
            /\ currentDocument' = NoDocument
            /\ lastValidationResult' = JsNull
            /\ validationState' = JsNull
            /\ lastOp' = [op |-> "destroy"]
            /\ UNCHANGED <<ptRules, inputValue, cursor, cmSelectedCountry, pageVars, callVars>>
    /\ UNCHANGED optionVars

Next ==
    \/ \E c \in TypedChars : TypeChar(c)
    \/ Backspace
    \/ \E v \in SetValues : SetValue(v)
    \/ Clear
    \/ \E code \in RegisteredCountries \cup {"xx"} : CallSetCountry(code)
    \/ Blur
    \/ CallIsValid

Spec == Init /\ [][Next]_vars

----------------------------------------------------------------------------
(* Calls of FormatManager.applyMask and FormatManager.calculateCursorPosition *)
(* on their own                                                              *)

\* longest value given to applyMask
MaxValueLen == 15

\* a mask of the shape of the examples, and one with leading, doubled and
\* trailing literals
MaskXXXXX == <<"X","X","X","-","X","X">>

MaskParens == <<"(","X","X",")"," ","X","-">>

Masks == {MaskCPF, MaskCNPJ, MaskNIF, MaskSSN, MaskEIN, MaskXXXXX, MaskParens}

MaskValues == {SubSeq(Str20Digits, 1, n) : n \in 0..MaxValueLen}

OldValues ==
    { <<>>,
      <<"1","2","3",".","4","5","6">>,
      <<"1","2","3","4">>,
      <<"1","2","3",".","4","5","6","7">>,
      <<"1","2","a","3">>,
      <<"1","2","3"," ","4","5","6"," ","7","8","9","1">> }

NewValues ==
    { <<"1","2","3",".","4","5","6",".","7">>,
      <<"1","2","3",".","4">>,
      <<"1","2","3">>,
      <<"1","2","3"," ","4","5","6"," ","7","8","9">>,
      <<"(","1","2",")"," ","3","-">>,
      <<>> }

InitFormat ==
    /\ ptRules \in PtRulesVersions
    /\ \/ \E v \in MaskValues, m \in Masks :
             fmCall = [fn |-> "applyMask", value |-> v, mask |-> m, done |-> FALSE]
       \/ \E o \in OldValues, n \in NewValues :
             \E c \in 0..(Len(o) + 1) :
                fmCall = [fn |-> "calculateCursorPosition", oldValue |-> o, newValue |-> n,
                          oldCursor |-> c, done |-> FALSE]
    /\ initCall = NoInitCall
    /\ self = 1
    /\ other = NoInstance
    /\ isInitialized = TRUE
    /\ inputValue = <<>>
    /\ cursor = 0
    /\ fmSelectedCountry = "br"
    /\ currentDocument = "cpf"
    /\ cmSelectedCountry = "br"
    /\ lastValidationResult = JsNull
    /\ validationState = JsNull
    /\ geoIpLookup = "default"
    /\ cmOnlyCountries = {}
    /\ geoPending = FALSE
    /\ lastOp = [op |-> "init"]
    /\ document = <<>>
    /\ countryCode = "br"
    /\ documentType = "cpf"
    /\ result = NoCall

\* formatManager.applyMask(value, mask)
CallApplyMask ==
    /\ fmCall.fn = "applyMask"
    /\ ~fmCall.done
    /\ fmCall' = [fn |-> "applyMask", value |-> fmCall.value, mask |-> fmCall.mask,
                  done |-> TRUE, ret |-> ApplyMask(fmCall.value, fmCall.mask)]
    /\ UNCHANGED <<ptRules, optionVars, widgetVars, self, other, initCall, callVars>>

\* formatManager.calculateCursorPosition(oldValue, newValue, oldCursor)
CallCalculateCursorPosition ==
    /\ fmCall.fn = "calculateCursorPosition"
    /\ ~fmCall.done
    /\ fmCall' = [fn |-> "calculateCursorPosition", oldValue |-> fmCall.oldValue,
                  newValue |-> fmCall.newValue, oldCursor |-> fmCall.oldCursor,
                  done |-> TRUE,
                  ret |-> CalculateCursorPosition(fmCall.oldValue, fmCall.newValue,
                                                  fmCall.oldCursor)]
    /\ UNCHANGED <<ptRules, optionVars, widgetVars, self, other, initCall, callVars>>

NextFormat ==
    \/ CallApplyMask
    \/ CallCalculateCursorPosition

SpecFormat == InitFormat /\ [][NextFormat]_vars

----------------------------------------------------------------------------
(* The static TaxDocumentInput.init(selector, options).  When the module is *)
(* evaluated with window defined, its last statement replaces the static   *)
(* method by a function whose body calls TaxDocumentInput.init again.      *)

\* the most elements the selector matches
MaxElements == 3

\* the call depth at which the engine raises RangeError
MaxCallStack == 30

InitStatic ==
    /\ ptRules \in PtRulesVersions
    /\ \E w \in BOOLEAN, n \in 0..MaxElements :
          initCall = [status |-> "idle", hasWindow |-> w, matched |-> n,
                      depth |-> 0, instances |-> 0, returns |-> "nothing"]
    /\ fmCall = NoFormatCall
    /\ self = 1
    /\ other = NoInstance
    /\ isInitialized = TRUE
    /\ inputValue = <<>>
    /\ cursor = 0
    /\ fmSelectedCountry = "br"
    /\ currentDocument = "cpf"
    /\ cmSelectedCountry = "br"
    /\ lastValidationResult = JsNull
    /\ validationState = JsNull
    /\ geoIpLookup = "default"
    /\ cmOnlyCountries = {}
    /\ geoPending = FALSE
    /\ lastOp = [op |-> "init"]
    /\ document = <<>>
    /\ countryCode = "br"
    /\ documentType = "cpf"
    /\ result = NoCall

\* the static method of the class: one new instance per matched element
StaticInitOfClass ==
    [initCall EXCEPT !.status = "returned",
                     !.instances = initCall.matched,
                     !.returns = IF initCall.matched = 1 THEN "instance" ELSE "array"]

\* TaxDocumentInput.init(selector, options) is called
StaticInit ==
    /\ initCall.status = "idle"
    /\ initCall' = IF initCall.hasWindow
                   THEN [initCall EXCEPT !.status = "running", !.depth = 1]
                   ELSE StaticInitOfClass
    /\ UNCHANGED <<ptRules, optionVars, widgetVars, self, other, fmCall, callVars>>

\* the replacing function runs: return TaxDocumentInput.init(selector, options)
StaticInitCallsItself ==
    /\ initCall.status = "running"
    /\ initCall.depth < MaxCallStack
    /\ initCall' = [initCall EXCEPT !.depth = initCall.depth + 1]
    /\ UNCHANGED <<ptRules, optionVars, widgetVars, self, other, fmCall, callVars>>

\* the call stack is exhausted: RangeError, Maximum call stack size exceeded
StaticInitOverflows ==
    /\ initCall.status = "running"
    /\ initCall.depth = MaxCallStack
    /\ initCall' = [initCall EXCEPT !.status = "threw"]
    /\ UNCHANGED <<ptRules, optionVars, widgetVars, self, other, fmCall, callVars>>

NextStatic ==
    \/ StaticInit
    \/ StaticInitCallsItself
    \/ StaticInitOverflows

SpecStatic == InitStatic /\ [][NextStatic]_vars

----------------------------------------------------------------------------
(* Two instances on one page, each constructed on its own <input>, and      *)
(* their life cycle.  The widget variables hold the fields of instance      *)
(* self, the one the next event or call goes to; other holds the fields of  *)
(* the second instance.                                                     *)

\* the fields of instance self
Fields ==
    [constructed |-> TRUE,
     isInitialized |-> isInitialized,
     inputValue |-> inputValue,
     cursor |-> cursor,
     fmSelectedCountry |-> fmSelectedCountry,
     currentDocument |-> currentDocument,
     cmSelectedCountry |-> cmSelectedCountry,
     lastValidationResult |-> lastValidationResult,
     validationState |-> validationState,
     geoIpLookup |-> geoIpLookup,
     cmOnlyCountries |-> cmOnlyCountries,
     geoPending |-> geoPending]

\* the fields of an instance right after new TaxDocumentInput(input,
\* { defaultCountry })
NewInstance(defaultCountry) ==
    [constructed |-> TRUE,
     isInitialized |-> TRUE,
     inputValue |-> <<>>,
     cursor |-> 0,
     fmSelectedCountry |-> defaultCountry,
     currentDocument |-> DetectDocumentType(<<>>, defaultCountry, NoDocument),
     cmSelectedCountry |-> defaultCountry,
     lastValidationResult |-> JsNull,
     validationState |-> JsNull,
     geoIpLookup |-> "default",
     cmOnlyCountries |-> {},
     geoPending |-> FALSE]

\* values given to setValue in the two-instance runs
InstanceValues == {Str11144477735, Str123456789}

InitInstances ==
    /\ ptRules \in PtRulesVersions
    /\ self = 1
    /\ \E d1 \in RegisteredCountries :
          /\ isInitialized = NewInstance(d1).isInitialized
          /\ inputValue = NewInstance(d1).inputValue
          /\ cursor = NewInstance(d1).cursor
          /\ fmSelectedCountry = NewInstance(d1).fmSelectedCountry
          /\ currentDocument = NewInstance(d1).currentDocument
          /\ cmSelectedCountry = NewInstance(d1).cmSelectedCountry
          /\ lastValidationResult = NewInstance(d1).lastValidationResult
          /\ validationState = NewInstance(d1).validationState
          /\ geoIpLookup = NewInstance(d1).geoIpLookup
          /\ cmOnlyCountries = NewInstance(d1).cmOnlyCountries
          /\ geoPending = NewInstance(d1).geoPending
    /\ \E d2 \in RegisteredCountries : other = NewInstance(d2)
    /\ lastOp = [op |-> "init"]
    /\ fmCall = NoFormatCall
    /\ initCall = NoInitCall
    /\ document = <<>>
    /\ countryCode = "br"
    /\ documentType = "cpf"
    /\ result = NoCall

\* the next event or call goes to the other instance
SwitchInstance ==
    /\ other.constructed
    /\ self' = 3 - self
    /\ other' = Fields
    /\ isInitialized' = other.isInitialized
    /\ inputValue' = other.inputValue
    /\ cursor' = other.cursor
    /\ fmSelectedCountry' = other.fmSelectedCountry
    /\ currentDocument' = other.currentDocument
    /\ cmSelectedCountry' = other.cmSelectedCountry
    /\ lastValidationResult' = other.lastValidationResult
    /\ validationState' = other.validationState
    /\ geoIpLookup' = other.geoIpLookup
    /\ cmOnlyCountries' = other.cmOnlyCountries
    /\ geoPending' = other.geoPending
    /\ UNCHANGED <<ptRules, lastOp, fmCall, initCall, callVars>>

NextInstances ==
    \/ SwitchInstance
    \/ \E v \in InstanceValues : SetValue(v)
    \/ Clear
    \/ \E code \in RegisteredCountries : CallSetCountry(code)
    \/ Blur
    \/ Destroy

SpecInstances == InitInstances /\ [][NextInstances]_vars

----------------------------------------------------------------------------
(* One instance with its country selector: the dropdown, setCountry,       *)
(* updateOptions, the GeoIP lookup that init started, and destroy          *)

\* values of the onlyCountries option
OnlyCountriesOptions == {{}, {"br"}, {"br", "pt"}}

\* what a GeoIP lookup calls back with ('' for a missing country_code)
GeoCodes == {"US", "pt", "xx", ""}

\* codes given to setCountry
SetCountryCodes == RegisteredCountries \cup {"xx", "toString"}

\* objects given to updateOptions
NewOptionsSamples ==
    {[defaultCountry |-> "pt"],
     [onlyCountries |-> {"us"}],
     [defaultCountry |-> "us", onlyCountries |-> {}],
     [defaultCountry |-> "toString", onlyCountries |-> {"br"}]}

\* the state after new TaxDocumentInput(input, { defaultCountry,
\* onlyCountries, autoGeolocate, geoIpLookup }): init has started the lookup
InitCountry ==
    /\ ptRules \in PtRulesVersions
    /\ \E defaultCountry \in RegisteredCountries :
        /\ fmSelectedCountry = defaultCountry
        /\ cmSelectedCountry = defaultCountry
        /\ currentDocument = DetectDocumentType(<<>>, defaultCountry, NoDocument)
    /\ cmOnlyCountries \in OnlyCountriesOptions
    /\ geoIpLookup \in {"custom", "default"}
    /\ \E autoGeolocate \in BOOLEAN : geoPending = autoGeolocate
    /\ inputValue = <<>>
    /\ cursor = 0
    /\ lastValidationResult = JsNull
    /\ validationState = JsNull
    /\ lastOp = [op |-> "init"]
    /\ isInitialized = TRUE
    /\ self = 1
    /\ other = NoInstance
    /\ fmCall = NoFormatCall
    /\ initCall = NoInitCall
    /\ document = <<>>
    /\ countryCode = "br"
    /\ documentType = "cpf"
    /\ result = NoCall

NextCountry ==
    \/ \E v \in InstanceValues : SetValue(v)
    \/ Clear
    \/ Blur
    \/ \E code \in RegisteredCountries : DropdownClick(code)
    \/ \E code \in SetCountryCodes : CallSetCountry(code)
    \/ \E newOptions \in NewOptionsSamples : UpdateOptions(newOptions)
    \/ \E found \in GeoCodes : GeoIpCallback(found)
    \/ Destroy

SpecCountry == InitCountry /\ [][NextCountry]_vars

----------------------------------------------------------------------------
(* Properties of the document type detector *)

\* C1: after every handled input event with a registered selected country,
\* the active document type equals what the detector returns for the digits
\* the field holds after that event.
C1_ActiveTypeMatchesField ==
    (lastOp.op = "input" /\ fmSelectedCountry \in RegisteredCountries)
        => currentDocument = DetectDocumentType(inputValue, fmSelectedCountry, NoDocument)

\* the document types of country c whose length is at least n
C2_LongEnough(c, n) == {i \in 1..Len(CountriesData[c]) : CountriesData[c][i].length >= n}

\* the type the detector is to give for n digits: lowest priority number
\* among the types that are long enough, else the highest priority number
C2_Expected(c, n) ==
    LET docs == CountriesData[c]
        among == IF n = 0 THEN 1..Len(docs)
                 ELSE IF C2_LongEnough(c, n) /= {} THEN C2_LongEnough(c, n)
                 ELSE {i \in 1..Len(docs) : \A j \in 1..Len(docs) : docs[j].priority <= docs[i].priority}
        first == CHOOSE i \in among : \A j \in among : docs[i].priority <= docs[j].priority
    IN  docs[first].id

\* C2: detectDocumentType gives, for n digits in the field, the first type in
\* ascending priority order whose length is >= n, the lowest-priority type
\* for n = 0 and the last type when n exceeds every length; for br that is
\* cpf for n in 0..11 and cnpj from 12 on.
C2_DetectByLength ==
    /\ lastOp.op = "input" =>
          /\ currentDocument = C2_Expected(fmSelectedCountry, lastOp.rawDigits)
          /\ fmSelectedCountry = "br" =>
                currentDocument = (IF lastOp.rawDigits <= 11 THEN "cpf" ELSE "cnpj")
    /\ lastOp.op \in {"init", "clear", "country"} =>
          currentDocument = C2_Expected(fmSelectedCountry, 0)

\* C2 witness: an input event that gave the br field 20 digits
C2_Witness ==
    /\ lastOp.op = "input"
    /\ lastOp.rawDigits = 20
    /\ fmSelectedCountry = "br"
    /\ currentDocument = "cnpj"

----------------------------------------------------------------------------
(* Properties of the dispatcher *)

Called == result /= NoCall

\* the (country, type) pairs of the six document types
RegisteredPairs ==
    {<<"br", "cpf">>, <<"br", "cnpj">>, <<"pt", "nif">>, <<"pt", "nipc">>,
     <<"us", "ssn">>, <<"us", "ein">>}

\* C3: Validator.validate never raises to its caller; when the selected
\* validator function raises, the result has isValid = false and an error
\* that carries the exception message.
C3_ValidateNeverRaises ==
    Called =>
        /\ ~result.raised
        /\ {"isValid", "error", "details"} \subseteq DOMAIN result.value
        /\ result.threw =>
              /\ result.value.isValid = JsBool(FALSE)
              /\ result.value.error.t = "string"
              /\ result.value.error.v[Len(result.value.error.v)]
                    = CallValidator(result.invoked, document).message

\* C3 witness: a call whose validator function raised
C3_Witness == Called /\ result.threw /\ ~result.raised

\* C4: for each of the six registered (country, type) pairs the validator
\* function, called the way validate calls it, returns and raises nothing.
C4_RegisteredValidatorsNeverRaise ==
    (Called /\ <<ToLowerCase(countryCode), documentType>> \in RegisteredPairs)
        => ~result.threw

\* the country whose rules a call asks for
RulesKey == ToLowerCase(countryCode)

\* the digits of the document of the call, as numbers
Doc == StripNonDigits(document)

D(i) == ParseInt(Doc[i])

\* the check digit that belongs to a weighted sum
CheckOf(sum) == IF sum % 11 < 2 THEN 0 ELSE 11 - (sum % 11)

IsValid(r) == r.value.isValid = JsBool(TRUE)

\* the document is n digits and nothing else, not all the same
PlainDigits(n) == Len(document) = n /\ Doc = document /\ ~AllSameDigit(document)

C5_NifCheck == CheckOf(9*D(1) + 8*D(2) + 7*D(3) + 6*D(4) + 5*D(5) + 4*D(6) + 3*D(7) + 2*D(8))

C5_Category ==
    CASE D(1) \in 1..3 -> "personal"
      [] D(1) = 5 -> "public_entity"
      [] D(1) = 6 -> "non_profit"
      [] OTHER -> "other_entity"

\* C5: through the dispatcher (pt, nif) a 9-digit string that is not all one
\* digit is valid exactly when its first digit is one of 1,2,3,5,6,7,8,9 and
\* its ninth digit is the check digit; the category follows the first digit;
\* '123456789' is valid and personal.
C5_NifThroughDispatcher ==
    (Called /\ RulesKey = "pt" /\ documentType = "nif" /\ PlainDigits(9)) =>
        /\ IsValid(result) <=> (D(1) \in {1, 2, 3, 5, 6, 7, 8, 9} /\ D(9) = C5_NifCheck)
        /\ IsValid(result) => result.value.details.type = C5_Category
        /\ document = Str123456789 =>
              IsValid(result) /\ result.value.details.type = "personal"

\* C6: a country without rules gives the rules-not-found error; a registered
\* country with a documentType that is not one of its document types gives
\* the validator-not-found error, and no function is invoked.
C6_UnknownLookups ==
    Called =>
        /\ RulesKey \notin RuleCountries =>
              /\ result.value.isValid = JsBool(FALSE)
              /\ result.value.error =
                    JsStr(<<"Regras de validacao nao encontradas para o pais: ", countryCode>>)
        /\ (RulesKey \in RuleCountries /\ <<RulesKey, documentType>> \notin RegisteredPairs) =>
              /\ result.value.isValid = JsBool(FALSE)
              /\ result.value.error =
                    JsStr(<<"Validador nao encontrado para o tipo: ", documentType>>)
              /\ result.invoked = "none"

\* the call is an SSN whose area is 666
C7_Area666 ==
    /\ RulesKey = "us"
    /\ documentType = "ssn"
    /\ Len(Doc) = 9
    /\ ~AllSameDigit(Doc)
    /\ SubSeq(Doc, 1, 3) = <<"6", "6", "6">>

\* C7: every result of validate has a boolean isValid; isValid = true implies
\* error = null; isValid = false implies a non-empty error string, except for
\* the SSN area-666 rejection, whose error is the empty string.
C7_ResultShape ==
    Called =>
        /\ result.value.isValid.t = "boolean"
        /\ result.value.isValid = JsBool(TRUE) => result.value.error = JsNull
        /\ result.value.isValid = JsBool(FALSE) =>
              /\ result.value.error.t = "string"
              /\ IF C7_Area666 THEN ~Truthy(result.value.error)
                 ELSE Truthy(result.value.error)

----------------------------------------------------------------------------
(* Properties of the rule sets *)

C8_First == CheckOf(10*D(1) + 9*D(2) + 8*D(3) + 7*D(4) + 6*D(5) + 5*D(6) + 4*D(7) + 3*D(8) + 2*D(9))

C8_Second ==
    CheckOf(11*D(1) + 10*D(2) + 9*D(3) + 8*D(4) + 7*D(5) + 6*D(6) + 5*D(7) + 4*D(8) + 3*D(9)
            + 2*D(10))

C8_ValidCpf ==
    /\ Len(Doc) = 11
    /\ \E i \in 2..11 : Doc[i] /= Doc[1]
    /\ D(10) = C8_First
    /\ D(11) = C8_Second

\* C8: a string is a valid CPF exactly when, non-digits stripped, it has 11
\* digits, not all identical, and digits 9 and 10 are the check digits under
\* weights 10..2 and 11..2; formatted is XXX.XXX.XXX-XX; '11144477735' is
\* valid as '111.444.777-35' and '11111111111' is rejected as repeated.
C8_Cpf ==
    (Called /\ RulesKey = "br" /\ documentType = "cpf") =>
        /\ IsValid(result) <=> C8_ValidCpf
        /\ IsValid(result) =>
              result.value.details.formatted =
                  <<Doc[1], Doc[2], Doc[3], ".", Doc[4], Doc[5], Doc[6], ".",
                    Doc[7], Doc[8], Doc[9], "-", Doc[10], Doc[11]>>
        /\ document = Str11144477735 =>
              /\ IsValid(result)
              /\ result.value.details.formatted =
                    <<"1","1","1",".","4","4","4",".","7","7","7","-","3","5">>
        /\ document = <<"1","1","1","1","1","1","1","1","1","1","1">> =>
              /\ result.value.isValid = JsBool(FALSE)
              /\ result.value.details = [pattern |-> "repeated_digits"]

\* C8 witness: the valid CPF of the examples, written with its separators
C8_Witness ==
    /\ Called
    /\ RulesKey = "br"
    /\ documentType = "cpf"
    /\ document = <<"1","1","1",".","4","4","4",".","7","7","7","-","3","5">>
    /\ IsValid(result)

C9_First ==
    CheckOf(5*D(1) + 4*D(2) + 3*D(3) + 2*D(4) + 9*D(5) + 8*D(6) + 7*D(7) + 6*D(8) + 5*D(9)
            + 4*D(10) + 3*D(11) + 2*D(12))

C9_Second ==
    CheckOf(6*D(1) + 5*D(2) + 4*D(3) + 3*D(4) + 2*D(5) + 9*D(6) + 8*D(7) + 7*D(8) + 6*D(9)
            + 5*D(10) + 4*D(11) + 3*D(12) + 2*D(13))

C9_ValidCnpj ==
    /\ Len(Doc) = 14
    /\ \E i \in 2..14 : Doc[i] /= Doc[1]
    /\ D(13) = C9_First
    /\ D(14) = C9_Second

\* C9: a string is a valid CNPJ exactly when, non-digits stripped, it has 14
\* digits, not all identical, and digits 12 and 13 are the check digits under
\* the two weight lists; formatted is XX.XXX.XXX/XXXX-XX; '11222333000181'
\* is valid as '11.222.333/0001-81'.
C9_Cnpj ==
    (Called /\ RulesKey = "br" /\ documentType = "cnpj") =>
        /\ IsValid(result) <=> C9_ValidCnpj
        /\ IsValid(result) =>
              result.value.details.formatted =
                  <<Doc[1], Doc[2], ".", Doc[3], Doc[4], Doc[5], ".", Doc[6], Doc[7], Doc[8],
                    "/", Doc[9], Doc[10], Doc[11], Doc[12], "-", Doc[13], Doc[14]>>
        /\ document = Str11222333000181 =>
              /\ IsValid(result)
              /\ result.value.details.formatted =
                    <<"1","1",".","2","2","2",".","3","3","3","/","0","0","0","1","-","8","1">>

\* C9 witness: the valid CNPJ of the examples
C9_Witness ==
    /\ Called
    /\ RulesKey = "br"
    /\ documentType = "cnpj"
    /\ document = Str11222333000181
    /\ IsValid(result)

\* C10: for every 9-digit string nipc reports valid exactly when nif reports
\* valid and the first digit is one of 5..9; a valid NIPC has category
\* company.
C10_NipcRefinesNif ==
    (Called /\ RulesKey = "pt" /\ documentType = "nipc" /\ Len(document) = 9 /\ Doc = document) =>
        /\ IsValid(result) <=>
              (/\ IsValid(ValidatorValidate(document, countryCode, "nif", ptRules))
               /\ D(1) \in 5..9)
        /\ IsValid(result) => result.value.details.type = "company"

----------------------------------------------------------------------------
(* Properties of the USA rule set *)

Area == SubSeq(Doc, 1, 3)

Group == SubSeq(Doc, 4, 5)

Serial == SubSeq(Doc, 6, 9)

\* the five semantic rejections of an SSN and the tag of each
C11_Rejections ==
    { [holds |-> Area = <<"0", "0", "0">>,     tag |-> "invalid_area_000"],
      [holds |-> Area = <<"6", "6", "6">>,     tag |-> "invalid_area_666"],
      [holds |-> Doc[1] = "9",                 tag |-> "invalid_area_starts_with_9"],
      [holds |-> Group = <<"0", "0">>,         tag |-> "invalid_group_00"],
      [holds |-> Serial = <<"0", "0", "0", "0">>, tag |-> "invalid_serial_0000"] }

C11_ValidSsn ==
    /\ Len(Doc) = 9
    /\ \E i \in 2..9 : Doc[i] /= Doc[1]
    /\ \A r \in C11_Rejections : ~r.holds

\* C11: a string is a valid SSN exactly when, non-digits stripped, it has 9
\* digits, not all identical, area neither 000 nor 666 nor 9xx, group not 00
\* and serial not 0000; a rejection for one of these five reasons carries the
\* tag of a reason that holds, the five tags being distinct; formatted is
\* AAA-GG-SSSS; '000456789' is invalid and '123456789' is valid.
C11_Ssn ==
    (Called /\ RulesKey = "us" /\ documentType = "ssn") =>
        /\ IsValid(result) <=> C11_ValidSsn
        /\ (Len(Doc) = 9 /\ ~AllSameDigit(Doc) /\ ~IsValid(result)) =>
              /\ \E r \in C11_Rejections :
                    r.holds /\ result.value.details.issue = r.tag
              /\ Cardinality({r.tag : r \in C11_Rejections}) = 5
        /\ IsValid(result) =>
              result.value.details.formatted =
                  <<Doc[1], Doc[2], Doc[3], "-", Doc[4], Doc[5], "-",
                    Doc[6], Doc[7], Doc[8], Doc[9]>>
        /\ document = <<"0","0","0","4","5","6","7","8","9">> =>
              result.value.isValid = JsBool(FALSE)
        /\ document = Str123456789 => IsValid(result)

\* C11 witness: an SSN with area 666 was rejected with the tag of that reason
C11_Witness ==
    /\ Called
    /\ RulesKey = "us"
    /\ documentType = "ssn"
    /\ C7_Area666
    /\ result.value.isValid = JsBool(FALSE)
    /\ result.value.details.issue = "invalid_area_666"

\* the allow-list of two-digit prefixes, by ranges
C12_AllowList ==
    {1, 2, 3, 4, 5, 6} \cup (10..16) \cup (20..27) \cup (30..39) \cup (40..48)
        \cup (50..59) \cup (60..68) \cup (71..77) \cup (80..88) \cup (90..96) \cup {98, 99}

C12_ValidEin ==
    /\ Len(Doc) = 9
    /\ \E i \in 2..9 : Doc[i] /= Doc[1]
    /\ 10 * D(1) + D(2) \in C12_AllowList
    /\ SubSeq(Doc, 3, 9) /= <<"0", "0", "0", "0", "0", "0", "0">>

\* C12: a string is a valid EIN exactly when, non-digits stripped, it has 9
\* digits, not all identical, its two-digit prefix is in the allow-list and
\* its seven-digit suffix is not 0000000; a prefix outside the list, such as
\* 07, gives isValid = false with details.issue = 'invalid_prefix';
\* formatted is PP-SSSSSSS.
C12_Ein ==
    (Called /\ RulesKey = "us" /\ documentType = "ein") =>
        /\ IsValid(result) <=> C12_ValidEin
        /\ (Len(Doc) = 9 /\ ~AllSameDigit(Doc)
               /\ 10 * D(1) + D(2) \notin C12_AllowList) =>
              /\ result.value.isValid = JsBool(FALSE)
              /\ result.value.details.issue = "invalid_prefix"
        /\ IsValid(result) =>
              result.value.details.formatted =
                  <<Doc[1], Doc[2], "-", Doc[3], Doc[4], Doc[5], Doc[6], Doc[7], Doc[8], Doc[9]>>

\* C12 witness: the EIN with prefix 07 was rejected for its prefix
C12_Witness ==
    /\ Called
    /\ RulesKey = "us"
    /\ documentType = "ein"
    /\ document = <<"0","7","1","2","3","4","5","6","7">>
    /\ result.value.isValid = JsBool(FALSE)
    /\ result.value.details.issue = "invalid_prefix"

----------------------------------------------------------------------------
(* Order of the checks of a validator *)

\* the digit count the validator of the call asks for
C20_Expected ==
    CASE documentType = "cpf" -> 11
      [] documentType = "cnpj" -> 14
      [] OTHER -> 9

C20_AllIdentical == Len(Doc) > 0 /\ \A i \in 1..Len(Doc) : Doc[i] = Doc[1]

\* C20: each of the six validators checks the digit count first, then
\* all-digits-identical, then the semantic checks, and reports the first
\* failing check: a wrong-length input gets the length error and an
\* all-identical input of the right length gets the repeated-digits error
\* (SSN '000000000', '666666666' and '999999999' included).
C20_CheckOrder ==
    (Called /\ <<RulesKey, documentType>> \in RegisteredPairs) =>
        /\ Len(Doc) /= C20_Expected =>
              /\ result.value.isValid = JsBool(FALSE)
              /\ result.value.details = [length |-> Len(Doc), expected |-> C20_Expected]
        /\ (Len(Doc) = C20_Expected /\ C20_AllIdentical) =>
              /\ result.value.isValid = JsBool(FALSE)
              /\ result.value.details = [pattern |-> "repeated_digits"]
        /\ (documentType = "ssn"
               /\ document \in { <<"0","0","0","0","0","0","0","0","0">>,
                                 <<"6","6","6","6","6","6","6","6","6">>,
                                 <<"9","9","9","9","9","9","9","9","9">> }) =>
              /\ result.value.details = [pattern |-> "repeated_digits"]
              /\ result.value.error = JsStr(<<"SSN cannot have all digits the same">>)

\* C20 witness: the SSN 666666666 was rejected as repeated digits
C20_Witness ==
    /\ Called
    /\ RulesKey = "us"
    /\ documentType = "ssn"
    /\ document = <<"6","6","6","6","6","6","6","6","6">>
    /\ result.value.details = [pattern |-> "repeated_digits"]

----------------------------------------------------------------------------
(* Properties of the widget's methods *)

\* the digits the field holds
FieldDigits == StripNonDigits(inputValue)

\* the field holds as many digits as the active document type asks for and
\* the dispatcher accepts them for the selected country and the active type
C18_CompleteAndValid ==
    /\ ~Falsy(currentDocument)
    /\ DocConfig(cmSelectedCountry, currentDocument) /= JsUndefined
    /\ Len(FieldDigits) = DocConfig(cmSelectedCountry, currentDocument).length
    /\ ValidatorValidate(FieldDigits, cmSelectedCountry, currentDocument, ptRules)
            .value.isValid = JsBool(TRUE)

\* C18: isValid() returns true exactly when the field's digit count equals
\* the length of the active document type and the dispatcher reports
\* isValid = true for those digits, the selected country and the active
\* type; in every other state of the widget it returns false.
C18_IsValidMethod ==
    lastOp.op = "isValid" =>
        /\ lastOp.ret = JsBool(C18_CompleteAndValid)
        /\ FieldDigits = <<>> => lastOp.ret = JsBool(FALSE)

\* C18 witness: isValid() returned true for a complete CNPJ
C18_Witness ==
    /\ lastOp.op = "isValid"
    /\ lastOp.ret = JsBool(TRUE)
    /\ currentDocument = "cnpj"
    /\ Len(FieldDigits) = 14

----------------------------------------------------------------------------
(* Properties of the life cycle and of two instances *)

\* C17: in a browser (window defined) the static TaxDocumentInput.init
\* terminates and returns one new instance per element the selector
\* matches: the instance itself for exactly one element, else the array.
C17_StaticInitReturnsInstances ==
    (initCall.status \in {"returned", "threw"} /\ initCall.hasWindow) =>
        /\ initCall.status = "returned"
        /\ initCall.instances = initCall.matched
        /\ initCall.returns = (IF initCall.matched = 1 THEN "instance" ELSE "array")

\* C16: after destroy() the plugin's listeners are removed: an input event
\* on the element is not processed by the plugin (the field keeps what was
\* typed, nothing is formatted or validated) and no plugin handler raises an
\* exception.
C16_DestroyRemovesListeners ==
    ~isInitialized =>
        /\ lastOp.op /= "input"
        /\ ~(lastOp.op = "raised" /\ lastOp.by \in {"input listener", "blur listener"})

\* what the claim of independence names of an instance
C19_View(f) ==
    [country |-> f.cmSelectedCountry,
     type |-> f.currentDocument,
     value |-> f.inputValue,
     last |-> f.lastValidationResult]

\* the instance numbered i
Instance(i) == IF i = self THEN Fields ELSE other

\* C19: an operation on one instance (input event, country selection,
\* clear, validation, destroy) leaves the selected country, the active
\* document type, the field value and the last validation result of the
\* other instance unchanged.
C19_InstancesIndependent ==
    [][\A i \in {1, 2} :
          (i /= self \/ self' /= self) => C19_View(Instance(i))' = C19_View(Instance(i))]_vars

\* C19 witness: an instance was destroyed while the other one held a
\* validated value
C19_Witness ==
    /\ lastOp.op = "destroy"
    /\ other.constructed
    /\ other.isInitialized
    /\ other.inputValue /= <<>>
    /\ other.lastValidationResult /= JsNull

----------------------------------------------------------------------------
(* Properties of the mask formatter and of the cursor remap *)

MaskCalled == fmCall.fn = "applyMask" /\ fmCall.done

CursorCalled == fmCall.fn = "calculateCursorPosition" /\ fmCall.done

\* the positions of the placeholders of a mask
C13_Placeholders(mask) == {i \in 1..Len(mask) : mask[i] = "X"}

\* how many placeholders a mask has up to position i
C13_Rank(mask, i) == Cardinality({j \in C13_Placeholders(mask) : j <= i})

\* the mask up to the placeholder that takes the last digit (the whole mask
\* when digits remain), each placeholder replaced by its digit
C13_Expected(value, mask) ==
    LET k == Len(value)
        ph == C13_Placeholders(mask)
        end == IF k = 0 THEN 0
               ELSE IF k <= Cardinality(ph)
                    THEN CHOOSE i \in ph : C13_Rank(mask, i) = k
                    ELSE Len(mask)
    IN  [i \in 1..end |-> IF mask[i] = "X" THEN value[C13_Rank(mask, i)] ELSE mask[i]]

\* C13: applyMask walks the mask left to right, each X taking the next
\* unused digit, every other character copied, and stops as soon as the
\* digits are exhausted: applyMask('12345','XXX-XX') = '123-45',
\* applyMask('123','XXX-XX') = '123', and the result never ends in a literal
\* when the value has fewer digits than the mask has placeholders.
C13_ApplyMask ==
    MaskCalled =>
        /\ fmCall.ret = C13_Expected(fmCall.value, fmCall.mask)
        /\ (fmCall.value = <<"1","2","3","4","5">> /\ fmCall.mask = MaskXXXXX) =>
              fmCall.ret = <<"1","2","3","-","4","5">>
        /\ (fmCall.value = <<"1","2","3">> /\ fmCall.mask = MaskXXXXX) =>
              fmCall.ret = <<"1","2","3">>
        /\ (Len(fmCall.value) < Cardinality(C13_Placeholders(fmCall.mask))
               /\ fmCall.ret /= <<>>) =>
              fmCall.ret[Len(fmCall.ret)] \in Digits

\* C13 witness: three digits under XXX-XX, the separator not emitted
C13_Witness ==
    /\ MaskCalled
    /\ fmCall.value = <<"1","2","3">>
    /\ fmCall.mask = MaskXXXXX
    /\ fmCall.ret = <<"1","2","3">>

\* the digits strictly before oldCursor in oldValue
C14_N ==
    Cardinality({i \in 1..Len(fmCall.oldValue) :
                    i <= fmCall.oldCursor /\ fmCall.oldValue[i] \in Digits})

\* the positions (1-based) of the digits of newValue
C14_DigitPositions == {i \in 1..Len(fmCall.newValue) : fmCall.newValue[i] \in Digits}

\* C14: with n >= 1 digits strictly before oldCursor in oldValue, the index
\* calculateCursorPosition returns is the one immediately after the n-th
\* digit of newValue, also when a literal separator follows that digit.
C14_CursorAfterNthDigit ==
    (CursorCalled /\ C14_N >= 1 /\ C14_N <= Cardinality(C14_DigitPositions)) =>
        fmCall.ret = (CHOOSE i \in C14_DigitPositions :
                         Cardinality({j \in C14_DigitPositions : j <= i}) = C14_N)

\* C14 as amended: with n >= 1 digits strictly before oldCursor in oldValue,
\* calculateCursorPosition returns the index of the (n+1)-th digit of
\* newValue, that is the index after the n-th digit and after the literals
\* that follow it, and the length of newValue when newValue has no more
\* than n digits.
C14_CursorBeforeNextDigit ==
    (CursorCalled /\ C14_N >= 1) =>
        fmCall.ret =
            IF Cardinality(C14_DigitPositions) > C14_N
            THEN (CHOOSE i \in C14_DigitPositions :
                     Cardinality({j \in C14_DigitPositions : j <= i}) = C14_N + 1) - 1
            ELSE Len(fmCall.newValue)

\* C14 witness: the third digit of the new value is followed by a separator
C14_Witness ==
    /\ CursorCalled
    /\ fmCall.oldValue = <<"1","2","3","4">>
    /\ fmCall.oldCursor = 3
    /\ fmCall.newValue = <<"1","2","3",".","4">>
    /\ fmCall.ret = 4

\* the call of the cursor remap example
C15_Example ==
    /\ CursorCalled
    /\ fmCall.oldValue = <<"1","2","3",".","4","5","6">>
    /\ fmCall.newValue = <<"1","2","3",".","4","5","6",".","7">>
    /\ fmCall.oldCursor = 7

\* C15 as amended: for old value '123.456', new value '123.456.7' and old
\* cursor 7 calculateCursorPosition returns 8, the index between the second
\* separator and the digit 7.
C15_CursorExampleAmended == C15_Example => fmCall.ret = 8

\* C15 witness: the example was called and returned an index before the end
C15_Witness == C15_Example /\ fmCall.ret < Len(fmCall.newValue)

\* C15: for old value '123.456', new value '123.456.7' and old cursor 7
\* calculateCursorPosition returns 9.
C15_CursorExample ==
    (/\ CursorCalled
     /\ fmCall.oldValue = <<"1","2","3",".","4","5","6">>
     /\ fmCall.newValue = <<"1","2","3",".","4","5","6",".","7">>
     /\ fmCall.oldCursor = 7) => fmCall.ret = 9

----------------------------------------------------------------------------
(* Round trip of the rule functions *)

\* the six rule functions called as methods of their rules object, nif in
\* both module versions
C21_Rules == {"cpf", "cnpj", "nif@1.0.0", "nif@1.0.1", "nipc", "ssn", "ein"}

\* rules.fn(doc): a call with the rules object as receiver
C21_CallMethod(fn, doc) ==
    IF fn = "nif@1.0.1" THEN PortugalNif101(doc, TRUE) ELSE CallValidator(fn, doc)

C21_Accepts(c) == ~c.threw /\ c.ret.isValid = JsBool(TRUE)

\* C21: for each of the six document types and every input the validator
\* accepts, the same validator run on the digits stripped from the returned
\* details.formatted accepts again and returns the same formatted string;
\* the same through the dispatcher.
C21_RoundTrip ==
    /\ \A fn \in C21_Rules :
          LET first == C21_CallMethod(fn, document)
              again == C21_CallMethod(fn, StripNonDigits(first.ret.details.formatted))
          IN  C21_Accepts(first) =>
                  /\ C21_Accepts(again)
                  /\ again.ret.details.formatted = first.ret.details.formatted
    /\ (Called /\ IsValid(result)) =>
          LET again == ValidatorValidate(StripNonDigits(result.value.details.formatted),
                                         countryCode, documentType, ptRules)
          IN  /\ IsValid(again)
              /\ again.value.details.formatted = result.value.details.formatted

\* C21 witness: the dispatcher accepted an NIPC and returned it with the
\* separators that the second run has to strip
C21_Witness ==
    /\ Called
    /\ RulesKey = "pt"
    /\ documentType = "nipc"
    /\ IsValid(result)
    /\ StripNonDigits(result.value.details.formatted) /= result.value.details.formatted

----------------------------------------------------------------------------
(* Properties of the country selection *)

\* the event that the last handler dispatched
C22_Event == lastOp.dispatched[1]

\* C22: each country selection that completes dispatches exactly one
\* countrychange event, whose detail.previousCountry is the country selected
\* immediately before and detail.newCountry the country selected after it;
\* when it is dispatched the format state is on the new country and the
\* field is empty.
C22_CountryChangeEvent ==
    [][/\ lastOp'.op = "country" =>
            /\ Len(lastOp'.dispatched) = 1
            /\ lastOp'.dispatched[1].type = "countrychange"
            /\ lastOp'.dispatched[1].detail.previousCountry = cmSelectedCountry
            /\ lastOp'.dispatched[1].detail.newCountry = cmSelectedCountry'
            /\ lastOp'.dispatched[1].seen.fmSelectedCountry = cmSelectedCountry'
            /\ lastOp'.dispatched[1].seen.inputValue = <<>>
       /\ (/\ isInitialized
           /\ cmSelectedCountry' /= cmSelectedCountry
           /\ cmSelectedCountry' \in RegisteredCountries) => lastOp'.op = "country"]_vars

\* C22 witness: a selection from br to us has dispatched its event, and
\* the listener found the format state on the first type of us
C22_Witness ==
    /\ lastOp.op = "country"
    /\ C22_Event.detail.previousCountry = "br"
    /\ C22_Event.detail.newCountry = "us"
    /\ C22_Event.seen.currentDocument = "ssn"
    /\ cmSelectedCountry = "us"

\* the type with the lowest priority number of country c
C24_FirstType(c) ==
    CASE c = "br" -> "cpf"
      [] c = "pt" -> "nif"
      [] c = "us" -> "ssn"

\* C24: after any completed country selection to country c the field is
\* empty, the active document type is the first type of c, the last
\* validation result is null and the visual state neutral, also when c was
\* the selected country already.
C24_SelectionResets ==
    lastOp.op = "country" =>
        /\ inputValue = <<>>
        /\ fmSelectedCountry = lastOp.newCountry
        /\ cmSelectedCountry = lastOp.newCountry
        /\ currentDocument = C24_FirstType(lastOp.newCountry)
        /\ lastValidationResult = JsNull
        /\ validationState = JsNull

\* C24 witness: the selected country was selected again
C24_Witness ==
    /\ lastOp.op = "country"
    /\ lastOp.previousCountry = "pt"
    /\ lastOp.newCountry = "pt"
    /\ inputValue = <<>>

\* C27: on an initialized instance, between handlers, the selected country
\* of FormatManager is the selected country of CountryManager, and it is a
\* key of the country registry.
C27_ManagersAgree ==
    isInitialized =>
        /\ fmSelectedCountry = cmSelectedCountry
        /\ cmSelectedCountry \in RegisteredCountries

\* the step is the arrival of the GeoIP callback
C28_Arrival == geoPending /\ ~geoPending'

\* C28: whenever the GeoIP callback arrives its handling completes without
\* raising; when it arrives after destroy() it changes no state and
\* dispatches no event.
C28_GeoIpAnyTime ==
    [][C28_Arrival =>
          /\ lastOp'.op /= "raised"
          /\ ~isInitialized =>
                /\ cmSelectedCountry' = cmSelectedCountry
                /\ fmSelectedCountry' = fmSelectedCountry
                /\ inputValue' = inputValue
                /\ lastOp'.op /= "country"]_vars

\* C29: with onlyCountries non-empty and the selected country in it, the
\* selected country is a member of onlyCountries after every dropdown
\* selection, setCountry call and GeoIP callback.
C29_OnlyCountriesLimit ==
    [][(/\ cmOnlyCountries /= {}
        /\ cmOnlyCountries' = cmOnlyCountries
        /\ cmSelectedCountry \in cmOnlyCountries) => cmSelectedCountry' \in cmOnlyCountries]_vars

----------------------------------------------------------------------------
(* Properties of the input handler *)

\* documents[active type].length of the selected country
C23_Length == DocConfig(fmSelectedCountry, currentDocument).length

\* C23: after each handled input event the visual validation state is
\* neutral when the field holds no digits or fewer than the active type's
\* length, the dispatcher's isValid for (digits, selected country, active
\* type) when it holds exactly that many, and invalid when it holds more;
\* for br a valid 11-digit CPF shows valid, and with a 12th digit the type is
\* cnpj and the state neutral.
C23_VisualState ==
    (lastOp.op = "input" /\ fmSelectedCountry \in RegisteredCountries) =>
        /\ Len(FieldDigits) < C23_Length => validationState = JsNull
        /\ Len(FieldDigits) = C23_Length =>
              validationState = ValidatorValidate(FieldDigits, cmSelectedCountry,
                                                  currentDocument, ptRules).value.isValid
        /\ Len(FieldDigits) > C23_Length => validationState = JsBool(FALSE)
        /\ (fmSelectedCountry = "br" /\ FieldDigits = Str11144477735) =>
              validationState = JsBool(TRUE)
        /\ (fmSelectedCountry = "br" /\ Len(FieldDigits) = 12) =>
              currentDocument = "cnpj" /\ validationState = JsNull

\* C23 witness: a 12th digit was typed after the valid CPF
C23_Witness ==
    /\ lastOp.op = "input"
    /\ fmSelectedCountry = "br"
    /\ Len(FieldDigits) = 12
    /\ SubSeq(FieldDigits, 1, 11) = Str11144477735
    /\ validationState = JsNull

\* the largest document length of country c
C25_Largest(c) == IF c = "br" THEN 14 ELSE 9

\* C25: after every handled input event with a registered selected country
\* the field holds at most the largest document length of that country in
\* digits (14 for br, 9 for pt and us), and the field value is applyMask of
\* exactly those digits with the mask of the active document type.
C25_FieldIsMasked ==
    (lastOp.op = "input" /\ fmSelectedCountry \in RegisteredCountries) =>
        /\ Len(FieldDigits) <= C25_Largest(fmSelectedCountry)
        /\ inputValue = ApplyMask(FieldDigits, DocConfig(fmSelectedCountry, currentDocument).mask)

\* C25 witness: an input event with more digits than the country's largest
\* length left the field full
C25_Witness ==
    /\ lastOp.op = "input"
    /\ lastOp.rawDigits > 14
    /\ fmSelectedCountry = "br"
    /\ Len(FieldDigits) = 14
    /\ Len(inputValue) = 18

\* the countries whose two document types share one length
C26_SameLength == {"pt", "us"}

\* the first type of pt and of us
C26_First(c) == IF c = "pt" THEN "nif" ELSE "ssn"

\* C26: for pt and us an input event whose raw value holds at most 9 digits
\* leaves the first type (nif, ssn) active, and the second type (nipc, ein)
\* becomes active only through an input event whose raw value holds more
\* than 9 digits.
C26_FirstTypeUnlessLonger ==
    [][/\ (/\ lastOp'.op = "input"
           /\ lastOp'.rawDigits <= 9
           /\ fmSelectedCountry' \in C26_SameLength)
             => currentDocument' = C26_First(fmSelectedCountry')
       /\ (/\ fmSelectedCountry' \in C26_SameLength
           /\ currentDocument' /= C26_First(fmSelectedCountry')
           /\ <<fmSelectedCountry, currentDocument>> /= <<fmSelectedCountry', currentDocument'>>)
             => (lastOp'.op = "input" /\ lastOp'.rawDigits > 9)]_vars

\* C26 witness: nine digits in the field of us, and ssn is the active type
C26_Witness ==
    /\ lastOp.op = "input"
    /\ lastOp.rawDigits = 9
    /\ fmSelectedCountry = "us"
    /\ Len(FieldDigits) = 9
    /\ currentDocument = "ssn"

----------------------------------------------------------------------------
(* Bounds of the caret *)

\* digits of s before index p
C30_DigitsBefore(s, p) == Cardinality({i \in 1..Len(s) : i - 1 < p /\ IsDigit(s[i])})

C30_Min(a, b) == IF a < b THEN a ELSE b

\* C30: calculateCursorPosition returns an index p with 0 <= p <=
\* length(newValue) such that newValue has before p as many digits as
\* oldValue has before oldCursor, or all its digits if it has fewer; p does
\* not decrease when oldCursor grows.
C30_CursorBounds ==
    CursorCalled =>
        /\ fmCall.ret \in 0..Len(fmCall.newValue)
        /\ C30_DigitsBefore(fmCall.newValue, fmCall.ret)
              = C30_Min(C30_DigitsBefore(fmCall.oldValue, fmCall.oldCursor),
                        Len(StripNonDigits(fmCall.newValue)))
        /\ \A c \in 0..fmCall.oldCursor :
              CalculateCursorPosition(fmCall.oldValue, fmCall.newValue, c) <= fmCall.ret

\* C30 witness: the caret stood inside the old value, behind a separator,
\* and the new value has fewer digits than were before it
C30_Witness ==
    /\ CursorCalled
    /\ fmCall.oldCursor < Len(fmCall.oldValue)
    /\ fmCall.oldCursor > C30_DigitsBefore(fmCall.oldValue, fmCall.oldCursor)
    /\ Len(StripNonDigits(fmCall.newValue)) < C30_DigitsBefore(fmCall.oldValue, fmCall.oldCursor)
    /\ fmCall.ret = Len(fmCall.newValue)

====
